---------------------------- MODULE Spec2Model ----------------------------
(***************************************************************************)
(* Order execution layer of tradingagents/execution: the simulated         *)
(* backend (SimulatedExecutor), the live venue adapter                     *)
(* (HyperliquidExecutor) and the shared close_position of BaseExecutor.    *)
(*                                                                         *)
(* Numbers.  Every quantity of the ledger (balance, size, entry price) is  *)
(* a Python float: a binary floating-point number whose arithmetic rounds  *)
(* each result to the nearest representable value, ties to even.  A float  *)
(* is modelled as a pair <<m, e>> standing for m * 2^e, in canonical form  *)
(* (m odd, or <<0, 0>>), with a significand of MantBits bits.  CPython's   *)
(* float has 53 bits; the model keeps the rounding rule and narrows the    *)
(* significand so that exact intermediate results fit TLC's integers.  The *)
(* exponent is unbounded: overflow, underflow, infinities and NaN are out  *)
(* of reach of the magnitudes used here.                                   *)
(***************************************************************************)
EXTENDS Integers, Sequences, FiniteSets, TLC

\* Width of the float significand in the model (53 in CPython).
MantBits == 12

\* ------------------------------------------------------------------------
\* Floating-point arithmetic
\* ------------------------------------------------------------------------

Abs(n) == IF n < 0 THEN -n ELSE n

Sign(n) == IF n < 0 THEN -1 ELSE IF n > 0 THEN 1 ELSE 0

Min(a, b) == IF a <= b THEN a ELSE b

Max(a, b) == IF a >= b THEN a ELSE b

RECURSIVE BitLen(_)
\* Number of binary digits of the natural number n.
BitLen(n) == IF n = 0 THEN 0 ELSE 1 + BitLen(n \div 2)

RECURSIVE Norm(_, _)
\* Canonical form of m * 2^e.
Norm(m, e) ==
    IF m = 0 THEN <<0, 0>>
    ELSE IF m % 2 = 0 THEN Norm(m \div 2, e + 1)
    ELSE <<m, e>>

\* The float nearest to (m + f) * 2^e, where 0 < f < 1 if sticky and f = 0
\* otherwise (m >= 0 when sticky): round to nearest, ties to even.
Rnd(m, e, sticky) ==
    LET a == Abs(m)
        s == BitLen(a) - MantBits
    IN  IF s <= 0 THEN Norm(m, e)
        ELSE LET d  == 2 ^ s
                 q  == a \div d
                 r  == a % d
                 h  == d \div 2
                 up == r > h \/ (r = h /\ (sticky \/ q % 2 = 1))
             IN  Norm(Sign(m) * (IF up THEN q + 1 ELSE q), e + s)

\* A float literal: the float nearest to m * 2^e.
F(m, e) == Rnd(m, e, FALSE)

Zero == <<0, 0>>

IsZero(x) == x[1] = 0

FNeg(x) == <<-x[1], x[2]>>

FAbs(x) == <<Abs(x[1]), x[2]>>

\* x * y
FMul(x, y) == Rnd(x[1] * y[1], x[2] + y[2], FALSE)

\* The exact sum of x and y as an integer multiple of 2^Min(x[2], y[2]).
ExactSum(x, y) ==
    LET e == Min(x[2], y[2])
    IN  x[1] * 2 ^ (x[2] - e) + y[1] * 2 ^ (y[2] - e)

\* x + y
FAdd(x, y) ==
    IF IsZero(x) THEN y
    ELSE IF IsZero(y) THEN x
    ELSE Rnd(ExactSum(x, y), Min(x[2], y[2]), FALSE)

\* x - y
FSub(x, y) == FAdd(x, FNeg(y))

\* x / y for y # 0 (Python raises ZeroDivisionError otherwise).
FDiv(x, y) ==
    IF IsZero(x) THEN Zero
    ELSE LET a == Abs(x[1])
             b == Abs(y[1])
             k == Max(0, MantBits + 2 + BitLen(b) - BitLen(a))
             n == a * 2 ^ k
             q == n \div b
             r == n % b
             R == Rnd(q, x[2] - k - y[2], r # 0)
         IN  IF Sign(x[1]) = Sign(y[1]) THEN R ELSE FNeg(R)

\* x < y, x > y, x <= y
FLess(x, y) ==
    IF IsZero(x) THEN y[1] > 0
    ELSE IF IsZero(y) THEN x[1] < 0
    ELSE ExactSum(x, FNeg(y)) < 0

FGreater(x, y) == FLess(y, x)

FLeq(x, y) == ~FLess(y, x)


\* A decimal literal n/d of the source text: the nearest float.
Dec(n, d) == FDiv(F(n, 0), F(d, 0))

\* ------------------------------------------------------------------------
\* Inputs
\* ------------------------------------------------------------------------

\* Python's None (an absent price, order id, error or liquidation price).
None == <<>>

Assets == {"BTC", "ETH"}

Sides == {"buy", "sell"}

OrderTypes == {"market", "limit"}

\* Order sizes a caller passes: 1/2 and 2.
Sizes == {F(1, -1), F(2, 0)}

\* Sizes the contract forbids (size > 0 is a precondition): 0 and -1.
BadSizes == {Zero, F(-1, 0)}

\* Reference prices a caller passes: 100 and 275.875.
Prices == {F(100, 0), F(2207, -3)}

\* Constructor arguments <<initial_balance, slippage>>: the defaults
\* (10000.0, 0.001), no slippage with a balance of 9996, and the default
\* slippage with no balance at all.
Configs ==
    {<<Dec(10000, 1), Dec(1, 1000)>>, <<F(2499, 2), Zero>>,
     <<Zero, Dec(1, 1000)>>}

\* Number of uuid4() values a run draws at most.
MaxUuids == 2

VARIABLES
    backend,          \* "simulated" or "live": the executor constructed
    initial_balance,  \* SimulatedExecutor.initial_balance
    slippage,         \* SimulatedExecutor.slippage
    balance,          \* SimulatedExecutor.balance
    positions,        \* SimulatedExecutor.positions: asset -> size, entry_price
    order_history,    \* SimulatedExecutor.order_history
    trade_count,      \* SimulatedExecutor.trade_count
    uuids,            \* number of uuid4() values drawn so far
    call,             \* the last operation invoked, with its arguments
    ret,              \* the value it returned
    invoked,          \* the place_order invocations it made, in order
    venue,            \* the venue calls it made, each with the venue's answer
    pre,              \* the ledger as it was when the operation was invoked
    fills,            \* per asset, the accepted trades in order
    secret_key,       \* HyperliquidExecutor.secret_key
    account_address,  \* HyperliquidExecutor.account_address
    clients,          \* the venue clients created: self.info, self.exchange
    threads,          \* per concurrent caller of place_order, where it is
                      \* in the method and its local variables
    heap              \* the position dicts as objects: which one the map
                      \* holds per asset, and the ones it held before

vars == <<backend, initial_balance, slippage, balance, positions, order_history,
          trade_count, uuids, call, ret, invoked, venue, pre, fills,
          secret_key, account_address, clients, threads, heap>>

\* What a steady-state operation called by a single caller leaves alone.
fixed == <<backend, initial_balance, slippage, secret_key, account_address,
           clients, threads, heap>>

\* The mutable fields of a SimulatedExecutor.
Ledger ==
    [balance |-> balance, positions |-> positions,
     order_history |-> order_history, trade_count |-> trade_count,
     uuids |-> uuids]

\* ------------------------------------------------------------------------
\* SimulatedExecutor
\* ------------------------------------------------------------------------

\* str(uuid.uuid4()): a fresh identifier, the n-th one drawn.
uuid4(L) == L.uuids + 1

\* price if price else 50000.0: None and 0.0 are both falsy.
ReferencePrice(price) ==
    IF price = None \/ price = Zero THEN Dec(50000, 1) ELSE price

\* Slippage applied in favour of the caller: buys below, sells above.
ExecutionPrice_Favourable(side, price, slip) ==
    IF side = "buy"
    THEN FMul(ReferencePrice(price), FSub(F(1, 0), slip))
    ELSE FMul(ReferencePrice(price), FAdd(F(1, 0), slip))

\* The reference price with slippage applied.
ExecutionPrice(side, price, slip) ==
    IF side = "buy"
    THEN FMul(ReferencePrice(price), FAdd(F(1, 0), slip))
    ELSE FMul(ReferencePrice(price), FSub(F(1, 0), slip))

\* The balance check applied to the wrong side.
InsufficientBalance_WrongSide(side, cost, bal) ==
    side = "sell" /\ FGreater(cost, bal)

\* No balance check at all.
InsufficientBalance_Never(side, cost, bal) == FALSE

\* side == "buy" and cost > self.balance
InsufficientBalance(side, cost, bal) == side = "buy" /\ FGreater(cost, bal)

\* The result of a rejected buy.
RejectedResult(order_id, cost, bal) ==
    [success |-> FALSE, order_id |-> order_id, filled_size |-> Zero,
     average_price |-> Zero, status |-> "rejected",
     error |-> <<"Insufficient balance", cost, bal>>]

\* The result of a fill.
FilledResult(order_id, size, execution_price) ==
    [success |-> TRUE, order_id |-> order_id, filled_size |-> size,
     average_price |-> execution_price, status |-> "filled", error |-> None]

\* self.positions[asset] after "if asset not in self.positions" has run.
CurrentPosition(pos, asset) ==
    IF asset \in DOMAIN pos THEN pos[asset]
    ELSE [size |-> Zero, entry_price |-> Zero]

\* The entry price averaged without the sizes as weights.
NewEntry_Unweighted(cur, size, execution_price) ==
    IF IsZero(cur.size) THEN execution_price
    ELSE FDiv(FAdd(cur.entry_price, execution_price), F(2, 0))

\* The new average entry price of a buy.
NewEntry(cur, size, execution_price) ==
    LET total_size == FAdd(cur.size, size)
    IN  IF FGreater(total_size, Zero)
        THEN FDiv(FAdd(FMul(cur.size, cur.entry_price),
                       FMul(size, execution_price)),
                  total_size)
        ELSE execution_price

\* The position record a buy stores.
BuyPosition(cur, size, execution_price) ==
    [size |-> FAdd(cur.size, size),
     entry_price |-> NewEntry(cur, size, execution_price)]

\* A sell that also forgets the entry price.
SellPosition_ResetsEntry(cur, size) ==
    [size |-> FSub(cur.size, size), entry_price |-> Zero]

\* The position record after a sell: only the size is assigned.
SellPosition(cur, size) ==
    [size |-> FSub(cur.size, size), entry_price |-> cur.entry_price]

\* The proceeds of a sell subtracted like the cost of a buy.
NewBalance_AlwaysDebit(side, bal, cost) == FSub(bal, cost)

\* self.balance -= cost for a buy, self.balance += cost for a sell.
NewBalance(side, bal, cost) ==
    IF side = "buy" THEN FSub(bal, cost) ELSE FAdd(bal, cost)

\* pos with pos[asset] set to rec (a dict assignment).
Store(pos, asset, rec) ==
    [a \in DOMAIN pos \cup {asset} |-> IF a = asset THEN rec ELSE pos[a]]

\* The arguments of one place_order invocation.
Order(asset, side, size, order_type, price, reduce_only) ==
    [asset |-> asset, side |-> side, size |-> size, order_type |-> order_type,
     price |-> price, reduce_only |-> reduce_only]

\* A market branch that also records the orders it rejects.
MarketOrder_RecordsRejected(L, slip, o, order_id) ==
    LET execution_price == ExecutionPrice(o.side, o.price, slip)
        cost            == FMul(o.size, execution_price)
        cur             == CurrentPosition(L.positions, o.asset)
        result          == FilledResult(order_id, o.size, execution_price)
        rejected        == RejectedResult(order_id, cost, L.balance)
    IN  IF InsufficientBalance(o.side, cost, L.balance)
        THEN [ledger |-> [L EXCEPT !.uuids = order_id,
                                   !.order_history = Append(@, rejected)],
              result |-> rejected]
        ELSE [ledger |->
                [balance |-> NewBalance(o.side, L.balance, cost),
                 positions |-> Store(L.positions, o.asset,
                                 IF o.side = "buy"
                                 THEN BuyPosition(cur, o.size, execution_price)
                                 ELSE SellPosition(cur, o.size)),
                 order_history |-> Append(L.order_history, result),
                 trade_count |-> L.trade_count + 1,
                 uuids |-> order_id],
              result |-> result]

\* The market branch of place_order on ledger L, with order_id drawn.
MarketOrder(L, slip, o, order_id) ==
    LET execution_price == ExecutionPrice(o.side, o.price, slip)
        cost            == FMul(o.size, execution_price)
        cur             == CurrentPosition(L.positions, o.asset)
        result          == FilledResult(order_id, o.size, execution_price)
    IN  IF InsufficientBalance(o.side, cost, L.balance)
        THEN [ledger |-> [L EXCEPT !.uuids = order_id],
              result |-> RejectedResult(order_id, cost, L.balance)]
        ELSE [ledger |->
                [balance |-> NewBalance(o.side, L.balance, cost),
                 positions |-> Store(L.positions, o.asset,
                                 IF o.side = "buy"
                                 THEN BuyPosition(cur, o.size, execution_price)
                                 ELSE SellPosition(cur, o.size)),
                 order_history |-> Append(L.order_history, result),
                 trade_count |-> L.trade_count + 1,
                 uuids |-> order_id],
              result |-> result]

\* A limit order answered with the order id its own call drew, not with the
\* id under which the fill is recorded.
SimPlaceOrder_OuterId(L, slip, o) ==
    IF o.order_type = "market"
    THEN MarketOrder(L, slip, o, uuid4(L)) @@ [invoked |-> <<o>>]
    ELSE LET inner == [o EXCEPT !.order_type = "market"]
             L1    == [L EXCEPT !.uuids = uuid4(L)]
             out   == MarketOrder(L1, slip, inner, uuid4(L1))
         IN  [out EXCEPT !.result.order_id = uuid4(L)]
                 @@ [invoked |-> <<o, inner>>]

\* A limit order left resting: answered "open" and not executed.
SimPlaceOrder_Resting(L, slip, o) ==
    IF o.order_type = "market"
    THEN MarketOrder(L, slip, o, uuid4(L)) @@ [invoked |-> <<o>>]
    ELSE [ledger |-> [L EXCEPT !.uuids = uuid4(L)],
          result |-> [FilledResult(uuid4(L), Zero, Zero)
                         EXCEPT !.status = "open"],
          invoked |-> <<o>>]

\* SimulatedExecutor.place_order: a limit order draws its own order id and
\* timestamp, then calls place_order again as a market order.
SimPlaceOrder(L, slip, o) ==
    IF o.order_type = "market"
    THEN MarketOrder(L, slip, o, uuid4(L)) @@ [invoked |-> <<o>>]
    ELSE LET inner == [o EXCEPT !.order_type = "market"]
             L1    == [L EXCEPT !.uuids = uuid4(L)]
         IN  MarketOrder(L1, slip, inner, uuid4(L1))
                 @@ [invoked |-> <<o, inner>>]

\* SimulatedExecutor.get_position
\* A get_position that answers for a flat entry as for an absent one.
SimGetPosition_ForgetsFlat(L, asset) ==
    LET flat == asset \in DOMAIN L.positions => L.positions[asset].size = Zero
    IN  [asset |-> asset,
         size |-> IF flat THEN Zero ELSE L.positions[asset].size,
         entry_price |-> IF flat THEN Zero ELSE L.positions[asset].entry_price,
         unrealized_pnl |->
             IF flat THEN Zero
             ELSE FMul(FSub(Dec(50000, 1), L.positions[asset].entry_price),
                       L.positions[asset].size),
         liquidation_price |-> None, leverage |-> F(1, 0)]

SimGetPosition(L, asset) ==
    IF asset \notin DOMAIN L.positions
    THEN [asset |-> asset, size |-> Zero, entry_price |-> Zero,
          unrealized_pnl |-> Zero, liquidation_price |-> None,
          leverage |-> F(1, 0)]
    ELSE LET position      == L.positions[asset]
             current_price == Dec(50000, 1)
         IN  [asset |-> asset, size |-> position.size,
              entry_price |-> position.entry_price,
              unrealized_pnl |->
                  IF position.size # Zero
                  THEN FMul(FSub(current_price, position.entry_price),
                            position.size)
                  ELSE Zero,
              liquidation_price |-> None, leverage |-> F(1, 0)]

RECURSIVE TotalUnrealizedPnl(_, _, _)
\* The loop of get_account_value: total += get_position(asset)
\* ["unrealized_pnl"] for the assets S still to visit.  The dict is visited
\* in insertion order; S is visited in an arbitrary order, which gives the
\* same total for up to two assets (0 + x is exact and + is commutative).
TotalUnrealizedPnl(L, S, total) ==
    IF S = {} THEN total
    ELSE LET asset == CHOOSE a \in S : TRUE
         IN  TotalUnrealizedPnl(L, S \ {asset},
                 FAdd(total, SimGetPosition(L, asset).unrealized_pnl))

\* The account value reported without the unrealized profit.
SimGetAccountValue_CashOnly(L) ==
    [account_value |-> L.balance, margin_used |-> Zero,
     available_margin |-> L.balance,
     total_unrealized_pnl |-> TotalUnrealizedPnl(L, DOMAIN L.positions, Zero),
     buying_power |-> L.balance]

\* SimulatedExecutor.get_account_value
SimGetAccountValue(L) ==
    LET total_unrealized_pnl ==
            TotalUnrealizedPnl(L, DOMAIN L.positions, Zero)
        account_value == FAdd(L.balance, total_unrealized_pnl)
    IN  [account_value |-> account_value, margin_used |-> Zero,
         available_margin |-> account_value,
         total_unrealized_pnl |-> total_unrealized_pnl,
         buying_power |-> L.balance]

\* The answer of get_order_status for an id not in the order history.
NotFound(order_id) ==
    [order_id |-> order_id, status |-> "not_found", filled_size |-> Zero,
     remaining_size |-> Zero, average_price |-> Zero]

\* SimulatedExecutor.get_order_status: the first record of the history with
\* this order id.
SimGetOrderStatus(L, order_id) ==
    LET hits == {i \in DOMAIN L.order_history :
                    L.order_history[i].order_id = order_id}
    IN  IF hits = {} THEN NotFound(order_id)
        ELSE LET order ==
                     L.order_history[CHOOSE i \in hits :
                                        \A j \in hits : i <= j]
             IN  [order_id |-> order_id, status |-> order.status,
                  filled_size |-> order.filled_size,
                  remaining_size |-> Zero,
                  average_price |-> order.average_price]

\* ------------------------------------------------------------------------
\* BaseExecutor
\* ------------------------------------------------------------------------

\* A cancel_order that withdraws the order from the history.
SimCancelOrder_Withdraws(L, order_id) ==
    [ledger |-> [L EXCEPT !.order_history =
                    SelectSeq(@, LAMBDA r : r.order_id # order_id)],
     result |-> [success |-> TRUE, order_id |-> order_id, error |-> None],
     invoked |-> <<>>]

\* SimulatedExecutor.cancel_order
SimCancelOrder(L, order_id) ==
    [ledger |-> L,
     result |-> [success |-> FALSE, order_id |-> order_id,
                 error |-> <<"Order cancellation not supported in simulation">>],
     invoked |-> <<>>]

\* The failure close_position returns for a flat position.
NoPositionResult == [success |-> FALSE, error |-> <<"No position to close">>]

\* A flat position never recognised.
IsFlat_Never(position) == FALSE

\* position["size"] == 0
IsFlat(position) == position.size = Zero

\* The closing order on the side of the position instead of against it.
ClosingOrder_SameSide(asset, position) ==
    Order(asset,
          IF FGreater(position.size, Zero) THEN "buy" ELSE "sell",
          FAbs(position.size), "market", None, TRUE)

\* A closing order for one unit, whatever the size of the position.
ClosingOrder_OneUnit(asset, position) ==
    Order(asset,
          IF FGreater(position.size, Zero) THEN "sell" ELSE "buy",
          F(1, 0), "market", None, TRUE)

\* The order close_position places for a position that is not flat.
ClosingOrder(asset, position) ==
    Order(asset,
          IF FGreater(position.size, Zero) THEN "sell" ELSE "buy",
          FAbs(position.size), "market", None, TRUE)

\* BaseExecutor.close_position on the simulated backend.
SimClosePosition(L, slip, asset) ==
    LET position == SimGetPosition(L, asset)
    IN  IF IsFlat(position)
        THEN [ledger |-> L, result |-> NoPositionResult, invoked |-> <<>>]
        ELSE SimPlaceOrder(L, slip, ClosingOrder(asset, position))

\* ------------------------------------------------------------------------
\* Values the venue SDK returns
\* ------------------------------------------------------------------------

\* A Python value of a venue reply, tagged with its type: None, a dict, a
\* list, a number, a str holding a decimal number (v is the float that
\* float() parses it to) and any other str (no text modelled here contains
\* the words "resting" or "filled").
JNone == [t |-> "none"]

JDict(r) == [t |-> "dict", v |-> r]

JList(q) == [t |-> "list", v |-> q]

JNum(x) == [t |-> "num", v |-> x]

JNumStr(x) == [t |-> "numstr", v |-> x]

JStr(text) == [t |-> "str", v |-> text]

\* {}: the dict without keys.
EmptyDict == JDict(<<>>)

\* An exception of the given type leaving the expression evaluated.
Raise(kind) == [raised |-> kind]

IsRaise(x) == DOMAIN x = {"raised"}

IsDict(x) == x.t = "dict"

\* x.get(k, d) on a dict x.
Get(x, k, d) == IF k \in DOMAIN x.v THEN x.v[k] ELSE d

\* bool(x)
Truthy(x) ==
    CASE x.t = "none" -> FALSE
      [] x.t = "dict" -> DOMAIN x.v # {}
      [] x.t = "list" -> x.v # <<>>
      [] x.t = "num" -> x.v # Zero
      [] x.t = "str" -> x.v # ""
      [] OTHER -> TRUE

\* k in x, for x a dict (a key), a list (an element) or a str (a substring).
CanContain(x) == x.t \in {"dict", "list", "str", "numstr"}

In(k, x) ==
    CASE x.t = "dict" -> k \in DOMAIN x.v
      [] x.t = "list" -> \E i \in DOMAIN x.v : x.v[i] = JStr(k)
      [] OTHER -> FALSE

\* The value x as the caller receives it: None for a venue None.
Value(x) == IF x = JNone THEN None ELSE x

\* float(x) succeeds on a number and on a str holding one.
CanFloat(x) == x.t \in {"num", "numstr"}

\* str(x): the decimal text of a number (JNumStr(v) stands for the text
\* Python prints for the integer v), a str itself, "None" for None.
Str(x) ==
    CASE x.t = "num" -> JNumStr(x.v)
      [] x.t \in {"numstr", "str"} -> x
      [] x.t = "none" -> JStr("None")
      [] OTHER -> JStr("repr")

\* int(x) succeeds on a number and on a str holding an integer.
CanInt(x) == x.t \in {"num", "numstr"}

\* price or 0
PriceOrZero(price) == IF price = None \/ price = Zero THEN Zero ELSE price

\* ------------------------------------------------------------------------
\* HyperliquidExecutor
\* ------------------------------------------------------------------------

\* config.get("default_slippage", 0.05) of a backend built without config.
default_slippage == Dec(5, 100)

LiveResult(success, order_id, filled_size, average_price, status, error) ==
    [success |-> success, order_id |-> order_id, filled_size |-> filled_size,
     average_price |-> average_price, status |-> status, error |-> error]

\* The except clause reporting success.
ErrorResult_Success(kind) ==
    LiveResult(TRUE, None, Zero, Zero, "error", <<kind>>)

\* The except clause of place_order: str(e) of an exception of type kind.
ErrorResult(kind) == LiveResult(FALSE, None, Zero, Zero, "error", <<kind>>)

\* The "Order failed" return of place_order for the venue reply result.
OrderFailed(result) ==
    LET response == Get(result, "response", EmptyDict)
    IN  IF ~IsDict(response) THEN ErrorResult("AttributeError")
        ELSE LiveResult(FALSE, None, Zero, Zero, "rejected",
                        Value(Get(response, "error", JStr("Unknown error"))))

\* The return for a first order status holding "filled".
Filled(status, o) ==
    LET filled_data == status.v["filled"]
    IN  IF ~IsDict(filled_data) THEN ErrorResult("AttributeError")
        ELSE LET totalSz == Get(filled_data, "totalSz", JNum(o.size))
                 avgPx   == Get(filled_data, "avgPx",
                                JNum(PriceOrZero(o.price)))
             IN  IF ~CanFloat(totalSz) \/ ~CanFloat(avgPx)
                 THEN ErrorResult("ValueError")
                 ELSE LiveResult(TRUE, Value(Get(filled_data, "oid", JNone)),
                                 totalSz.v, avgPx.v, "filled", None)

\* The returns for the first order status of an "ok" reply.
FirstStatus(status, o) ==
    IF ~CanContain(status) THEN ErrorResult("TypeError")
    ELSE IF In("resting", status)
    THEN IF ~IsDict(status) THEN ErrorResult("TypeError")
         ELSE IF ~IsDict(status.v["resting"])
         THEN ErrorResult("AttributeError")
         ELSE LiveResult(TRUE, Value(Get(status.v["resting"], "oid", JNone)),
                         Zero, PriceOrZero(o.price), "open", None)
    ELSE IF In("filled", status)
    THEN IF ~IsDict(status) THEN ErrorResult("TypeError")
         ELSE Filled(status, o)
    ELSE LiveResult(TRUE, None, Zero, PriceOrZero(o.price), "open", None)

\* "Parse Hyperliquid response": the result place_order builds from the
\* value result that the venue call returned for order o.
ParseResponse(result, o) ==
    IF ~IsDict(result) THEN ErrorResult("AttributeError")
    ELSE IF Get(result, "status", JNone) = JStr("ok")
    THEN LET response == Get(result, "response", EmptyDict)
         IN  IF ~IsDict(response) THEN ErrorResult("AttributeError")
             ELSE LET response_data == Get(response, "data", EmptyDict)
                  IN  IF ~IsDict(response_data)
                      THEN ErrorResult("AttributeError")
                      ELSE LET statuses == Get(response_data, "statuses",
                                               JList(<<EmptyDict>>))
                           IN  IF ~Truthy(statuses) THEN OrderFailed(result)
                               ELSE IF statuses.t = "list"
                               THEN FirstStatus(statuses.v[1], o)
                               ELSE IF statuses.t \in {"str", "numstr"}
                               THEN FirstStatus(JStr("first character"), o)
                               ELSE ErrorResult("KeyError")
    ELSE OrderFailed(result)

\* The request place_order sends for order o.
Request(o) ==
    IF o.order_type = "market"
    THEN [fn |-> "market_order", coin |-> o.asset, is_buy |-> (o.side = "buy"),
          sz |-> o.size, slippage |-> default_slippage,
          reduce_only |-> o.reduce_only]
    ELSE [fn |-> "limit_order", coin |-> o.asset, is_buy |-> (o.side = "buy"),
          sz |-> o.size, px |-> o.price, reduce_only |-> o.reduce_only]

\* The rejection of a limit order without a price.
LimitPriceRequired ==
    LiveResult(FALSE, None, Zero, Zero, "rejected",
               <<"Limit price required for limit orders">>)

\* place_order without its except clause: a failure of the venue call
\* reaches the caller.
LivePlaceOrder_Uncaught(o, reply) ==
    IF o.order_type # "market" /\ o.price = None
    THEN [result |-> LimitPriceRequired, invoked |-> <<o>>, venue |-> <<>>]
    ELSE [result |-> IF IsRaise(reply) THEN reply
                     ELSE ParseResponse(reply, o),
          invoked |-> <<o>>,
          venue |-> <<[request |-> Request(o), reply |-> reply]>>]

\* A limit order without a price submitted to the venue like any other.
LivePlaceOrder_SubmitsUnpriced(o, reply) ==
    [result |-> IF IsRaise(reply) THEN ErrorResult(reply.raised)
                ELSE ParseResponse(reply, o),
     invoked |-> <<o>>,
     venue |-> <<[request |-> Request(o), reply |-> reply]>>]

\* HyperliquidExecutor.place_order, the venue answering reply (a value, or
\* Raise(kind) when the call raises).
LivePlaceOrder(o, reply) ==
    IF o.order_type # "market" /\ o.price = None
    THEN [result |-> LimitPriceRequired, invoked |-> <<o>>, venue |-> <<>>]
    ELSE [result |-> IF IsRaise(reply) THEN ErrorResult(reply.raised)
                     ELSE ParseResponse(reply, o),
          invoked |-> <<o>>,
          venue |-> <<[request |-> Request(o), reply |-> reply]>>]

\* The Position built from the snapshot entry pos_data, or the exception.
LivePosition(pos_data, asset) ==
    LET szi      == Get(pos_data, "szi", JNum(Zero))
        entryPx  == Get(pos_data, "entryPx", JNum(Zero))
        liqPx    == Get(pos_data, "liquidationPx", JNone)
        pnl      == Get(pos_data, "unrealizedPnl", JNum(Zero))
        leverage == Get(pos_data, "leverage", EmptyDict)
    IN  IF ~CanFloat(szi) \/ ~CanFloat(entryPx) \/ ~CanFloat(pnl)
        THEN Raise("RuntimeError")
        ELSE IF Truthy(liqPx) /\ ~CanFloat(liqPx) THEN Raise("RuntimeError")
        ELSE IF ~IsDict(leverage) THEN Raise("RuntimeError")
        ELSE IF ~CanFloat(Get(leverage, "value", JNum(F(1, 0))))
        THEN Raise("RuntimeError")
        ELSE [asset |-> asset, size |-> szi.v, entry_price |-> entryPx.v,
              unrealized_pnl |-> pnl.v,
              liquidation_price |-> IF Truthy(liqPx) THEN liqPx.v ELSE None,
              leverage |-> Get(leverage, "value", JNum(F(1, 0))).v]

RECURSIVE ScanPositions(_, _, _)
\* The loop of get_position over the list q from its i-th entry on.
ScanPositions(q, i, asset) ==
    IF i > Len(q)
    THEN [asset |-> asset, size |-> Zero, entry_price |-> Zero,
          unrealized_pnl |-> Zero, liquidation_price |-> None,
          leverage |-> F(1, 0)]
    ELSE IF ~IsDict(q[i]) THEN Raise("RuntimeError")
    ELSE LET pos_data == Get(q[i], "position", EmptyDict)
         IN  IF ~IsDict(pos_data) THEN Raise("RuntimeError")
             ELSE IF Get(pos_data, "coin", JNone) = JStr(asset)
             THEN LivePosition(pos_data, asset)
             ELSE ScanPositions(q, i + 1, asset)

\* get_position reading user_state["assetPositions"] without a default.
LiveGetPosition_NoDefault(asset, user_state) ==
    IF IsRaise(user_state) \/ ~IsDict(user_state) THEN Raise("RuntimeError")
    ELSE IF "assetPositions" \notin DOMAIN user_state.v
    THEN Raise("RuntimeError")
    ELSE IF user_state.v["assetPositions"].t = "list"
    THEN ScanPositions(user_state.v["assetPositions"].v, 1, asset)
    ELSE Raise("RuntimeError")

\* HyperliquidExecutor.get_position, the venue answering user_state: every
\* exception is raised again as a RuntimeError.
LiveGetPosition(asset, user_state) ==
    IF IsRaise(user_state) \/ ~IsDict(user_state) THEN Raise("RuntimeError")
    ELSE LET assetPositions == Get(user_state, "assetPositions", JList(<<>>))
         IN  IF assetPositions.t = "list"
             THEN ScanPositions(assetPositions.v, 1, asset)
             ELSE IF assetPositions = EmptyDict
             THEN ScanPositions(<<>>, 1, asset)
             ELSE Raise("RuntimeError")

\* HyperliquidExecutor.get_account_value, the venue answering user_state:
\* every exception is raised again as a RuntimeError.
LiveGetAccountValue(user_state) ==
    IF IsRaise(user_state) \/ ~IsDict(user_state) THEN Raise("RuntimeError")
    ELSE LET margin == Get(user_state, "marginSummary", EmptyDict)
         IN  IF ~IsDict(margin) THEN Raise("RuntimeError")
             ELSE LET accountValue == Get(margin, "accountValue", JNum(Zero))
                      totalMarginUsed ==
                          Get(margin, "totalMarginUsed", JNum(Zero))
                      totalNtlPos == Get(margin, "totalNtlPos", JNum(Zero))
                  IN  IF \/ ~CanFloat(accountValue)
                         \/ ~CanFloat(totalMarginUsed)
                         \/ ~CanFloat(totalNtlPos)
                      THEN Raise("RuntimeError")
                      ELSE LET available_margin ==
                                   FSub(accountValue.v, totalMarginUsed.v)
                           IN  [account_value |-> accountValue.v,
                                margin_used |-> totalMarginUsed.v,
                                available_margin |-> available_margin,
                                total_unrealized_pnl |-> totalNtlPos.v,
                                buying_power |-> available_margin]

\* The except clause of get_order_status.
StatusError(order_id, kind) ==
    [order_id |-> order_id, status |-> "error", filled_size |-> Zero,
     remaining_size |-> Zero, average_price |-> Zero, error |-> <<kind>>]

\* An order missing from the open orders reported as open.
FilledOrCanceled_Open(order_id) ==
    [order_id |-> order_id, status |-> "open", filled_size |-> Zero,
     remaining_size |-> Zero, average_price |-> Zero]

\* "Order not in open orders - assume filled or canceled".
FilledOrCanceled(order_id) ==
    [order_id |-> order_id, status |-> "filled_or_canceled",
     filled_size |-> Zero, remaining_size |-> Zero, average_price |-> Zero]

RECURSIVE ScanOrders(_, _, _)
\* The loop of get_order_status over the list q from its i-th entry on.
ScanOrders(q, i, order_id) ==
    IF i > Len(q) THEN FilledOrCanceled(order_id)
    ELSE IF ~IsDict(q[i]) THEN StatusError(order_id, "AttributeError")
    ELSE IF Str(Get(q[i], "oid", JNone)) = Str(order_id)
    THEN LET sz      == Get(q[i], "sz", JNum(Zero))
             limitPx == Get(q[i], "limitPx", JNum(Zero))
         IN  IF ~CanFloat(sz) \/ ~CanFloat(limitPx)
             THEN StatusError(order_id, "ValueError")
             ELSE [order_id |-> order_id, status |-> "open",
                   filled_size |-> Zero, remaining_size |-> sz.v,
                   average_price |-> limitPx.v]
    ELSE ScanOrders(q, i + 1, order_id)

\* HyperliquidExecutor.get_order_status, the venue answering user_state.
LiveGetOrderStatus(order_id, user_state) ==
    IF IsRaise(user_state) THEN StatusError(order_id, user_state.raised)
    ELSE IF ~IsDict(user_state) THEN StatusError(order_id, "AttributeError")
    ELSE LET open_orders == Get(user_state, "openOrders", JList(<<>>))
         IN  IF open_orders.t = "list"
             THEN ScanOrders(open_orders.v, 1, order_id)
             ELSE IF open_orders = EmptyDict \/ open_orders = JStr("")
             THEN FilledOrCanceled(order_id)
             ELSE IF open_orders.t \in {"dict", "str", "numstr"}
             THEN StatusError(order_id, "AttributeError")
             ELSE StatusError(order_id, "TypeError")

\* The result of cancel_order.
CancelResult(success, order_id, error) ==
    [success |-> success, order_id |-> order_id, error |-> error]

\* HyperliquidExecutor.cancel_order, the venue answering reply when asked.
LiveCancelOrder(order_id, asset, reply) ==
    IF ~CanInt(order_id)
    THEN [result |-> CancelResult(FALSE, order_id, <<"ValueError">>),
          venue |-> <<>>]
    ELSE [venue |-> <<[request |-> [fn |-> "cancel_order", coin |-> asset,
                                    oid |-> order_id.v],
                       reply |-> reply]>>,
          result |->
            IF IsRaise(reply) THEN CancelResult(FALSE, order_id, <<reply.raised>>)
            ELSE IF ~IsDict(reply)
            THEN CancelResult(FALSE, order_id, <<"AttributeError">>)
            ELSE IF Get(reply, "status", JNone) = JStr("ok")
            THEN CancelResult(TRUE, order_id, None)
            ELSE IF ~IsDict(Get(reply, "response", EmptyDict))
            THEN CancelResult(FALSE, order_id, <<"AttributeError">>)
            ELSE CancelResult(FALSE, order_id,
                     Value(Get(Get(reply, "response", EmptyDict), "error",
                               JStr("Unknown error"))))]

\* The constructor with the check of the signing key left out.
Construct_NoKeyCheck(env) ==
    IF ~env.sdk
    THEN [result |-> Raise("ImportError"), secret_key |-> JNone,
          account_address |-> JNone, clients |-> <<>>]
    ELSE LET base_url == IF env.testnet THEN "TESTNET_API_URL"
                         ELSE "MAINNET_API_URL"
         IN  [result |-> None,
              secret_key |-> env.HYPERLIQUID_SECRET_KEY,
              account_address |->
                  IF Truthy(env.HYPERLIQUID_ACCOUNT_ADDRESS)
                  THEN env.HYPERLIQUID_ACCOUNT_ADDRESS
                  ELSE JStr("account.address"),
              clients |-> <<[client |-> "Info", base_url |-> base_url],
                            [client |-> "Exchange", base_url |-> base_url]>>]

\* HyperliquidExecutor.__init__ in the process environment env: the
\* exception it raises (result) or the fields it sets and the venue
\* clients it creates.
Construct(env) ==
    IF ~env.sdk
    THEN [result |-> Raise("ImportError"), secret_key |-> JNone,
          account_address |-> JNone, clients |-> <<>>]
    ELSE IF ~Truthy(env.HYPERLIQUID_SECRET_KEY)
    THEN [result |-> Raise("ValueError"),
          secret_key |-> env.HYPERLIQUID_SECRET_KEY,
          account_address |-> env.HYPERLIQUID_ACCOUNT_ADDRESS,
          clients |-> <<>>]
    ELSE LET base_url == IF env.testnet THEN "TESTNET_API_URL"
                         ELSE "MAINNET_API_URL"
         IN  [result |-> None,
              secret_key |-> env.HYPERLIQUID_SECRET_KEY,
              account_address |->
                  IF Truthy(env.HYPERLIQUID_ACCOUNT_ADDRESS)
                  THEN env.HYPERLIQUID_ACCOUNT_ADDRESS
                  ELSE JStr("account.address"),
              clients |-> <<[client |-> "Info", base_url |-> base_url],
                            [client |-> "Exchange", base_url |-> base_url]>>]

\* BaseExecutor.close_position on the live backend.
LiveClosePosition(asset, user_state, reply) ==
    LET position == LiveGetPosition(asset, user_state)
        asked    == <<[request |-> [fn |-> "user_state"],
                       reply |-> user_state]>>
    IN  IF IsRaise(position)
        THEN [result |-> position, invoked |-> <<>>, venue |-> asked]
        ELSE IF IsFlat(position)
        THEN [result |-> NoPositionResult, invoked |-> <<>>, venue |-> asked]
        ELSE LET out == LivePlaceOrder(ClosingOrder(asset, position), reply)
             IN  [out EXCEPT !.venue = asked \o @]

\* ------------------------------------------------------------------------
\* The simulated backend as a state machine
\* ------------------------------------------------------------------------

\* SimulatedExecutor.get_statistics: the division by initial_balance raises
\* ZeroDivisionError when the backend was constructed without a balance.
SimGetStatistics(L, initial) ==
    IF IsZero(initial) THEN Raise("ZeroDivisionError")
    ELSE [initial_balance |-> initial,
          current_balance |-> L.balance,
          total_trades |-> L.trade_count,
          positions |-> Cardinality({a \in DOMAIN L.positions :
                                        L.positions[a].size # Zero}),
          pnl_percent |->
              FMul(FDiv(FSub(SimGetAccountValue(L).account_value, initial),
                        initial),
                   F(100, 0))]

\* The accepted trades of out.invoked's last order, appended to f.
Recorded(f, L, out) ==
    IF out.invoked # <<>> /\ out.result.success
    THEN LET o == out.invoked[Len(out.invoked)]
         IN  [f EXCEPT ![o.asset] = Append(@,
                 [side |-> o.side, size |-> o.size,
                  ref |-> ReferencePrice(o.price),
                  price |-> out.result.average_price,
                  order_id |-> out.result.order_id,
                  seq |-> L.trade_count + 1,
                  size_before |-> CurrentPosition(L.positions, o.asset).size,
                  balance_before |-> L.balance])]
    ELSE f

\* The ledger becomes out.ledger and the caller sees out.result.
Return(c, out) ==
    /\ balance' = out.ledger.balance
    /\ positions' = out.ledger.positions
    /\ order_history' = out.ledger.order_history
    /\ trade_count' = out.ledger.trade_count
    /\ uuids' = out.ledger.uuids
    /\ call' = c
    /\ ret' = out.result
    /\ invoked' = out.invoked
    /\ venue' = <<>>
    /\ pre' = Ledger
    /\ fills' = Recorded(fills, Ledger, out)
    /\ UNCHANGED fixed

\* A query that creates the entry of the asset it is asked about.
Answer_CreatesEntry(c, value) ==
    Return(c, [ledger |->
                  [Ledger EXCEPT !.positions =
                      IF "asset" \in DOMAIN c /\ c.asset \notin DOMAIN @
                      THEN Store(@, c.asset,
                                 [size |-> Zero, entry_price |-> Zero])
                      ELSE @],
               result |-> value, invoked |-> <<>>])

\* A query: the ledger is left as it is.
Answer(c, value) ==
    Return(c, [ledger |-> Ledger, result |-> value, invoked |-> <<>>])

\* uuid4() values one place_order call of this type draws.
Draws(order_type) == IF order_type = "market" THEN 1 ELSE 2

\* The orders a caller places: on BTC every market order of a valid size at
\* a given price, the orders without a price, the limit orders, the
\* reduce-only orders, the orders of an invalid size and the orders for 0.1
\* BTC at 50000; on ETH the market orders for 1/2 at 100.
Orders ==
    {Order("BTC", sd, sz, "market", pr, FALSE) :
        sd \in Sides, sz \in Sizes, pr \in Prices}
    \cup {Order("ETH", sd, F(1, -1), "market", F(100, 0), FALSE) :
        sd \in Sides}
    \cup {Order("BTC", sd, F(1, -1), ot, None, FALSE) :
        sd \in Sides, ot \in OrderTypes}
    \cup {Order("BTC", sd, F(1, -1), "limit", F(100, 0), FALSE) : sd \in Sides}
    \cup {Order("BTC", sd, F(2, 0), "market", F(100, 0), TRUE) : sd \in Sides}
    \cup {Order("BTC", sd, sz, "market", F(100, 0), FALSE) :
        sd \in Sides, sz \in BadSizes}
    \cup {Order("BTC", sd, Dec(1, 10), "market", Dec(50000, 1), FALSE) :
        sd \in Sides}

\* The limit orders place_order is compared on with its market orders: for
\* 2 BTC, both sides, with and without a price, with and without
\* reduce_only.
LimitOrders ==
    {Order("BTC", sd, F(2, 0), "limit", pr, ro) :
        sd \in Sides, pr \in {F(100, 0), None}, ro \in BOOLEAN}

SimInit ==
    /\ backend = "simulated"
    /\ \E c \in Configs : initial_balance = c[1] /\ slippage = c[2]
    /\ balance = initial_balance
    /\ positions = <<>>
    /\ order_history = <<>>
    /\ trade_count = 0
    /\ uuids = 0
    /\ call = [op |-> "__init__", class |-> "SimulatedExecutor"]
    /\ ret = None
    /\ invoked = <<>>
    /\ venue = <<>>
    /\ pre = Ledger
    /\ fills = [a \in Assets |-> <<>>]
    /\ secret_key = JNone
    /\ account_address = JNone
    /\ clients = <<>>
    /\ threads = <<>>
    /\ heap = <<>>

PlaceOrder ==
    /\ backend = "simulated"
    /\ \E o \in Orders :
        /\ uuids + Draws(o.order_type) <= MaxUuids
        /\ Return([op |-> "place_order", order |-> o],
                  SimPlaceOrder(Ledger, slippage, o))

GetPosition ==
    /\ backend = "simulated"
    /\ \E a \in Assets :
        Answer([op |-> "get_position", asset |-> a], SimGetPosition(Ledger, a))

ClosePosition ==
    /\ backend = "simulated"
    /\ \E a \in Assets :
        /\ IsFlat(SimGetPosition(Ledger, a)) \/ uuids + 1 <= MaxUuids
        /\ Return([op |-> "close_position", asset |-> a],
                  SimClosePosition(Ledger, slippage, a))

GetAccountValue ==
    /\ backend = "simulated"
    /\ Answer([op |-> "get_account_value"], SimGetAccountValue(Ledger))

\* The order ids a caller asks about: 0, which uuid4() never returns, and
\* the ids it may have returned.
OrderIds == 0..MaxUuids

GetOrderStatus ==
    /\ backend = "simulated"
    /\ \E order_id \in OrderIds :
        Answer([op |-> "get_order_status", order_id |-> order_id],
               SimGetOrderStatus(Ledger, order_id))

\* The order ids a caller asks to cancel: 0, which uuid4() never returns,
\* and the first it returns.
CancelIds == {0, 1}

CancelOrder ==
    /\ backend = "simulated"
    /\ \E order_id \in CancelIds :
        Return([op |-> "cancel_order", order_id |-> order_id],
               SimCancelOrder(Ledger, order_id))

GetStatistics ==
    /\ backend = "simulated"
    /\ Answer([op |-> "get_statistics"],
              SimGetStatistics(Ledger, initial_balance))

\* ------------------------------------------------------------------------
\* The live backend as a state machine
\* ------------------------------------------------------------------------

\* A reply of the venue to an order: {"status": "ok", "response": {"type":
\* "order", "data": {"statuses": statuses}}}.
OkReply(statuses) ==
    JDict([status |-> JStr("ok"),
           response |-> JDict([type |-> JStr("order"),
                               data |-> JDict([statuses |-> statuses])])])

\* What the venue may answer to market_order and limit_order.
VenueReplies ==
    {Raise("ConnectionError"), JNone,
     OkReply(JList(<<JDict([resting |-> JDict([oid |-> JNum(F(77, 0))])])>>)),
     OkReply(JList(<<JDict([resting |-> EmptyDict])>>)),
     OkReply(JList(<<JDict([filled |->
         JDict([totalSz |-> JNumStr(F(1, -1)), avgPx |-> JNumStr(F(101, 0)),
                oid |-> JNum(F(78, 0))])])>>)),
     OkReply(JList(<<JDict([filled |-> EmptyDict])>>)),
     OkReply(JList(<<JDict([filled |->
         JDict([totalSz |-> JStr("n/a"), oid |-> JNum(F(79, 0))])])>>)),
     OkReply(JList(<<JDict([filled |-> JNone])>>)),
     OkReply(JList(<<JDict([error |-> JStr("Insufficient margin")])>>)),
     OkReply(JList(<<>>)),
     OkReply(JNone),
     JDict([status |-> JStr("ok")]),
     JDict([status |-> JStr("err"), response |-> JStr("Invalid size")]),
     JDict([status |-> JStr("err"),
            response |-> JDict([error |-> JStr("Invalid size")])]),
     EmptyDict}

\* A snapshot entry {"position": {"coin": ..., "szi": ..., ...}}.
AssetPosition(coin, szi, entryPx, liqPx) ==
    JDict([position |->
        JDict([coin |-> JStr(coin), szi |-> JNumStr(szi),
               entryPx |-> JNumStr(entryPx), unrealizedPnl |-> JNumStr(F(3, 0)),
               liquidationPx |-> liqPx,
               leverage |-> JDict([type |-> JStr("cross"),
                                   value |-> JNum(F(5, 0))])])])

\* What the venue may answer to user_state.
UserStates ==
    {Raise("ConnectionError"), JNone, EmptyDict,
     JDict([assetPositions |-> JList(<<>>)]),
     JDict([assetPositions |-> JNone]),
     JDict([assetPositions |-> JList(<<
         AssetPosition("BTC", F(1, -1), F(100, 0), JNumStr(F(60, 0)))>>)]),
     JDict([assetPositions |-> JList(<<
         AssetPosition("ETH", F(-2, 0), F(2207, -3), JNone)>>)]),
     JDict([assetPositions |-> JList(<<
         AssetPosition("ETH", F(-2, 0), F(2207, -3), JNone),
         AssetPosition("BTC", Zero, Zero, JNone)>>)]),
     JDict([assetPositions |-> JList(<<
         JDict([position |-> JDict([coin |-> JStr("BTC")])])>>)]),
     JDict([assetPositions |-> JList(<<
         JDict([position |-> JNone]),
         AssetPosition("BTC", F(1, -1), F(100, 0), JNone)>>)])}

\* A margin summary of the snapshot.
MarginSummary(accountValue, totalMarginUsed, totalNtlPos) ==
    JDict([marginSummary |->
        JDict([accountValue |-> accountValue,
               totalMarginUsed |-> totalMarginUsed,
               totalNtlPos |-> totalNtlPos])])

\* What the venue may answer to user_state when the account is read.
MarginStates ==
    {Raise("ConnectionError"), JNone, EmptyDict,
     JDict([marginSummary |-> JNone]),
     JDict([marginSummary |-> JDict([accountValue |-> JNumStr(F(100, 0))])]),
     MarginSummary(JNumStr(F(2499, 2)), JNumStr(F(50, 0)), JNumStr(F(100, 0))),
     MarginSummary(JNumStr(F(10000, 0)), JNumStr(Zero), JNumStr(Zero)),
     MarginSummary(JNumStr(F(100, 0)), JNumStr(F(2207, -3)),
                   JNumStr(F(-3, 0))),
     MarginSummary(JStr("n/a"), JNumStr(Zero), JNumStr(Zero)),
     MarginSummary(JNumStr(F(100, 0)), JNone, JNumStr(Zero))}

\* An open order of the snapshot.
OpenOrder(oid, sz, limitPx) ==
    JDict([coin |-> JStr("BTC"), oid |-> oid, sz |-> sz, limitPx |-> limitPx])

\* What the venue may answer to user_state when the open orders are read.
OrderStates ==
    {Raise("ConnectionError"), JNone, EmptyDict,
     JDict([openOrders |-> JList(<<>>)]),
     JDict([openOrders |-> JNone]),
     JDict([openOrders |-> JList(<<
         OpenOrder(JNum(F(77, 0)), JNumStr(F(1, -1)), JNumStr(F(100, 0)))>>)]),
     JDict([openOrders |-> JList(<<
         OpenOrder(JNum(F(80, 0)), JNumStr(F(2, 0)), JNumStr(F(100, 0))),
         OpenOrder(JNum(F(77, 0)), JStr("n/a"), JNumStr(F(100, 0)))>>)]),
     JDict([openOrders |-> JList(<<
         JNone,
         OpenOrder(JNum(F(77, 0)), JNumStr(F(1, -1)), JNumStr(F(100, 0)))>>)])}

\* The order ids a caller asks the live backend about: the resting oid 77 as
\* place_order returned it and as text, and ids the venue never gave out.
LiveOrderIds ==
    {JNum(F(77, 0)), JNumStr(F(77, 0)), JNumStr(F(5, 0)), JStr("no-such-id")}

\* What the venue may answer to cancel_order.
CancelReplies ==
    {Raise("ConnectionError"), JNone,
     JDict([status |-> JStr("ok"),
            response |-> JDict([type |-> JStr("cancel")])]),
     JDict([status |-> JStr("err"), response |-> JStr("Order not found")]),
     JDict([status |-> JStr("err"),
            response |-> JDict([error |-> JStr("Order not found")])]),
     EmptyDict}

\* The process environments a live backend is constructed in: whether the
\* venue SDK can be imported, the two environment variables (JNone when
\* unset), and the testnet argument.
Environment(sdk, key, address, testnet) ==
    [sdk |-> sdk, HYPERLIQUID_SECRET_KEY |-> key,
     HYPERLIQUID_ACCOUNT_ADDRESS |-> address, testnet |-> testnet]

Environments ==
    {Environment(TRUE, JStr("0xkey"), JNone, TRUE),
     Environment(TRUE, JStr("0xkey"), JStr("0xaddress"), FALSE),
     Environment(TRUE, JNone, JNone, TRUE),
     Environment(TRUE, JStr(""), JStr("0xaddress"), TRUE),
     Environment(FALSE, JNone, JNone, TRUE),
     Environment(FALSE, JStr("0xkey"), JNone, FALSE)}

\* HyperliquidExecutor(testnet) in environment env, it keeps no ledger.
LiveInit ==
    /\ \E env \in Environments :
        LET made == Construct(env)
        IN  /\ backend = IF IsRaise(made.result) THEN "none" ELSE "live"
            /\ secret_key = made.secret_key
            /\ account_address = made.account_address
            /\ clients = made.clients
            /\ call = [op |-> "__init__", class |-> "HyperliquidExecutor",
                       env |-> env]
            /\ ret = made.result
    /\ initial_balance = Zero
    /\ slippage = Zero
    /\ balance = Zero
    /\ positions = <<>>
    /\ order_history = <<>>
    /\ trade_count = 0
    /\ uuids = 0
    /\ invoked = <<>>
    /\ venue = <<>>
    /\ pre = Ledger
    /\ fills = [a \in Assets |-> <<>>]
    /\ threads = <<>>
    /\ heap = <<>>

\* The caller sees out.result (the exception raised, if it is one).
LiveReturn(c, out) ==
    /\ call' = c
    /\ ret' = out.result
    /\ invoked' = out.invoked
    /\ venue' = out.venue
    /\ pre' = Ledger
    /\ UNCHANGED <<fixed, balance, positions, order_history, trade_count,
                   uuids, fills>>

LivePlace ==
    /\ backend = "live"
    /\ \E o \in Orders, reply \in VenueReplies :
        LiveReturn([op |-> "place_order", order |-> o],
                   LivePlaceOrder(o, reply))

LiveGet ==
    /\ backend = "live"
    /\ \E a \in Assets, user_state \in UserStates :
        LiveReturn([op |-> "get_position", asset |-> a],
                   [result |-> LiveGetPosition(a, user_state), invoked |-> <<>>,
                    venue |-> <<[request |-> [fn |-> "user_state"],
                                 reply |-> user_state]>>])

LiveClose ==
    /\ backend = "live"
    /\ \E a \in Assets, user_state \in UserStates, reply \in VenueReplies :
        LiveReturn([op |-> "close_position", asset |-> a],
                   LiveClosePosition(a, user_state, reply))

LiveAccount ==
    /\ backend = "live"
    /\ \E user_state \in MarginStates :
        LiveReturn([op |-> "get_account_value"],
                   [result |-> LiveGetAccountValue(user_state),
                    invoked |-> <<>>,
                    venue |-> <<[request |-> [fn |-> "user_state"],
                                 reply |-> user_state]>>])

LiveStatus ==
    /\ backend = "live"
    /\ \E order_id \in LiveOrderIds, user_state \in OrderStates :
        LiveReturn([op |-> "get_order_status", order_id |-> order_id],
                   [result |-> LiveGetOrderStatus(order_id, user_state),
                    invoked |-> <<>>,
                    venue |-> <<[request |-> [fn |-> "user_state"],
                                 reply |-> user_state]>>])

LiveCancel ==
    /\ backend = "live"
    /\ \E order_id \in LiveOrderIds, a \in Assets, reply \in CancelReplies :
        LiveReturn([op |-> "cancel_order", order_id |-> order_id,
                    asset |-> a],
                   LiveCancelOrder(order_id, a, reply) @@ [invoked |-> <<>>])

Init == SimInit \/ LiveInit

Next ==
    \/ PlaceOrder
    \/ GetPosition
    \/ ClosePosition
    \/ LivePlace
    \/ LiveGet
    \/ LiveClose
    \/ GetAccountValue
    \/ LiveAccount
    \/ GetOrderStatus
    \/ LiveStatus
    \/ LiveCancel
    \/ CancelOrder
    \/ GetStatistics

Spec == Init /\ [][Next]_vars

\* ------------------------------------------------------------------------
\* Two callers in SimulatedExecutor.place_order at once
\* ------------------------------------------------------------------------
\* place_order takes no lock.  Two threads that call it on one backend run
\* its statements interleaved, a thread being preempted between any two
\* accesses to the fields of the backend.  Each caller places a market
\* order on BTC.  A position dict is an object: a buy binds a new dict to
\* the asset, a sell assigns the size of the dict bound to it, and the local
\* current_position keeps referring to the dict it was read from.

Callers == {1, 2}

\* The orders the two callers place.
RaceOrders ==
    {Order("BTC", "buy", F(1, -1), "market", F(100, 0), FALSE),
     Order("BTC", "buy", F(2, 0), "market", F(2207, -3), FALSE),
     Order("BTC", "sell", F(1, -1), "market", F(100, 0), FALSE),
     Order("BTC", "sell", F(2, 0), "market", F(2207, -3), FALSE)}

\* The fields of a backend just constructed with a balance of bal.
Fresh(bal) ==
    [balance |-> bal, positions |-> <<>>, order_history |-> <<>>,
     trade_count |-> 0, uuids |-> 0]

\* The ledgers the callers find: a fresh one, and one holding 2 BTC.
RaceLedgers(bal, slip) ==
    {Fresh(bal),
     MarketOrder(Fresh(bal), slip,
                 Order("BTC", "buy", F(2, 0), "market", F(100, 0), FALSE),
                 uuid4(Fresh(bal))).ledger}

\* A caller about to execute place_order(o): its position in the method
\* and its local variables.
Caller(o) ==
    [pc |-> "start", o |-> o, order_id |-> 0, execution_price |-> Zero,
     cost |-> Zero, current_position |-> 0, total_size |-> Zero,
     new_entry |-> Zero, new_size |-> Zero, loaded |-> Zero, count |-> 0,
     result |-> None]

\* The dict object with identity id: the one bound to an asset, or one that
\* was bound before.
Obj(id) ==
    IF \E a \in DOMAIN heap.at : heap.at[a] = id
    THEN positions[CHOOSE a \in DOMAIN heap.at : heap.at[a] = id]
    ELSE heap.old[id]

\* self.positions[asset] = rec: a new dict object is bound to the asset.
Bind(asset, rec) ==
    /\ positions' = Store(positions, asset, rec)
    /\ heap' = [at |-> Store(heap.at, asset, heap.next),
                old |-> IF asset \in DOMAIN heap.at
                        THEN Store(heap.old, heap.at[asset], positions[asset])
                        ELSE heap.old,
                next |-> heap.next + 1]

\* What no step of place_order changes.
settled == <<backend, initial_balance, slippage, call, ret, invoked, venue,
             pre, fills, secret_key, account_address, clients>>

RaceInit ==
    /\ backend = "simulated"
    /\ \E c \in Configs :
        /\ initial_balance = c[1] /\ slippage = c[2]
        /\ \E L \in RaceLedgers(c[1], c[2]) :
            /\ balance = L.balance
            /\ positions = L.positions
            /\ order_history = L.order_history
            /\ trade_count = L.trade_count
            /\ uuids = L.uuids
    /\ \E o1 \in RaceOrders, o2 \in RaceOrders :
        /\ threads = [t \in Callers |-> Caller(IF t = 1 THEN o1 ELSE o2)]
        /\ call = [op |-> "place_order", orders |-> <<o1, o2>>]
    /\ heap = [at |-> [a \in DOMAIN positions |-> 1], old |-> <<>>,
               next |-> 2]
    /\ ret = None
    /\ invoked = <<>>
    /\ venue = <<>>
    /\ pre = Ledger
    /\ fills = [a \in Assets |-> <<>>]
    /\ secret_key = JNone
    /\ account_address = JNone
    /\ clients = <<>>

\* Caller t moves to pc with the locals of record upd assigned.
Goto(t, pc, upd) ==
    threads' = [threads EXCEPT ![t] =
        [f \in DOMAIN @ |-> IF f = "pc" THEN pc
                            ELSE IF f \in DOMAIN upd THEN upd[f] ELSE @[f]]]

\* Lines 47-62: the order id, the execution price and the cost.
Start(t) ==
    /\ threads[t].pc = "start"
    /\ LET o  == threads[t].o
           px == ExecutionPrice(o.side, o.price, slippage)
       IN  /\ uuids' = uuid4(Ledger)
           /\ Goto(t, "check", [order_id |-> uuid4(Ledger),
                                execution_price |-> px,
                                cost |-> FMul(o.size, px)])
    /\ UNCHANGED <<settled, balance, positions, order_history, trade_count,
                   heap>>

\* Lines 65-74: the balance check.
CheckBalance(t) ==
    /\ threads[t].pc = "check"
    /\ LET me == threads[t]
       IN  IF InsufficientBalance(me.o.side, me.cost, balance)
           THEN Goto(t, "done",
                     [result |-> RejectedResult(me.order_id, me.cost, balance)])
           ELSE Goto(t, "ensure", <<>>)
    /\ UNCHANGED <<settled, balance, positions, order_history, trade_count,
                   uuids, heap>>

\* Line 77: if asset not in self.positions.
EnsurePosition(t) ==
    /\ threads[t].pc = "ensure"
    /\ IF threads[t].o.asset \in DOMAIN positions
       THEN Goto(t, "current", <<>>)
       ELSE Goto(t, "create", <<>>)
    /\ UNCHANGED <<settled, balance, positions, order_history, trade_count,
                   uuids, heap>>

\* Line 78: self.positions[asset] = {"size": 0, "entry_price": 0}.
CreatePosition(t) ==
    /\ threads[t].pc = "create"
    /\ Bind(threads[t].o.asset, [size |-> Zero, entry_price |-> Zero])
    /\ Goto(t, "current", <<>>)
    /\ UNCHANGED <<settled, balance, order_history, trade_count, uuids>>

\* Line 80: current_position = self.positions[asset].
ReadPosition(t) ==
    /\ threads[t].pc = "current"
    /\ Goto(t, IF threads[t].o.side = "buy" THEN "total" ELSE "new_size",
            [current_position |-> heap.at[threads[t].o.asset]])
    /\ UNCHANGED <<settled, balance, positions, order_history, trade_count,
                   uuids, heap>>

\* Line 84: total_size = current_position["size"] + size.
TotalSizeOfBuy(t) ==
    /\ threads[t].pc = "total"
    /\ Goto(t, "entry",
            [total_size |-> FAdd(Obj(threads[t].current_position).size,
                                 threads[t].o.size)])
    /\ UNCHANGED <<settled, balance, positions, order_history, trade_count,
                   uuids, heap>>

\* Lines 85-91: the new average entry price.
EntryOfBuy(t) ==
    /\ threads[t].pc = "entry"
    /\ LET me  == threads[t]
           cur == Obj(me.current_position)
       IN  Goto(t, "store",
                [new_entry |->
                    IF FGreater(me.total_size, Zero)
                    THEN FDiv(FAdd(FMul(cur.size, cur.entry_price),
                                   FMul(me.o.size, me.execution_price)),
                              me.total_size)
                    ELSE me.execution_price])
    /\ UNCHANGED <<settled, balance, positions, order_history, trade_count,
                   uuids, heap>>

\* Lines 93-96: self.positions[asset] = {"size": total_size, ...}.
StorePosition(t) ==
    /\ threads[t].pc = "store"
    /\ Bind(threads[t].o.asset,
            [size |-> threads[t].total_size,
             entry_price |-> threads[t].new_entry])
    /\ Goto(t, "load_balance", <<>>)
    /\ UNCHANGED <<settled, balance, order_history, trade_count, uuids>>

\* Line 100: new_size = current_position["size"] - size.
NewSizeOfSell(t) ==
    /\ threads[t].pc = "new_size"
    /\ Goto(t, "set_size",
            [new_size |-> FSub(Obj(threads[t].current_position).size,
                               threads[t].o.size)])
    /\ UNCHANGED <<settled, balance, positions, order_history, trade_count,
                   uuids, heap>>

\* Line 101: self.positions[asset]["size"] = new_size, assigned in the dict
\* now bound to the asset.
SetSize(t) ==
    /\ threads[t].pc = "set_size"
    /\ positions' = [positions EXCEPT
                        ![threads[t].o.asset].size = threads[t].new_size]
    /\ Goto(t, "load_balance", <<>>)
    /\ UNCHANGED <<settled, balance, order_history, trade_count, uuids, heap>>

\* Lines 97 and 104, first half: self.balance is read.
LoadBalance(t) ==
    /\ threads[t].pc = "load_balance"
    /\ Goto(t, "store_balance", [loaded |-> balance])
    /\ UNCHANGED <<settled, balance, positions, order_history, trade_count,
                   uuids, heap>>

\* Lines 97 and 104, second half: self.balance is assigned.
StoreBalance(t) ==
    /\ threads[t].pc = "store_balance"
    /\ balance' = NewBalance(threads[t].o.side, threads[t].loaded,
                             threads[t].cost)
    /\ Goto(t, "load_count", <<>>)
    /\ UNCHANGED <<settled, positions, order_history, trade_count, uuids,
                   heap>>

\* Line 111, first half: self.trade_count is read.
LoadCount(t) ==
    /\ threads[t].pc = "load_count"
    /\ Goto(t, "store_count", [count |-> trade_count])
    /\ UNCHANGED <<settled, balance, positions, order_history, trade_count,
                   uuids, heap>>

\* Line 111, second half: self.trade_count is assigned.
StoreCount(t) ==
    /\ threads[t].pc = "store_count"
    /\ trade_count' = threads[t].count + 1
    /\ Goto(t, "append", <<>>)
    /\ UNCHANGED <<settled, balance, positions, order_history, uuids, heap>>

\* Lines 113-124: the result is appended to the history and returned.
AppendResult(t) ==
    /\ threads[t].pc = "append"
    /\ LET result == FilledResult(threads[t].order_id, threads[t].o.size,
                                  threads[t].execution_price)
       IN  /\ order_history' = Append(order_history, result)
           /\ Goto(t, "done", [result |-> result])
    /\ UNCHANGED <<settled, balance, positions, trade_count, uuids, heap>>

RaceNext ==
    \E t \in Callers :
        \/ Start(t)
        \/ CheckBalance(t)
        \/ EnsurePosition(t)
        \/ CreatePosition(t)
        \/ ReadPosition(t)
        \/ TotalSizeOfBuy(t)
        \/ EntryOfBuy(t)
        \/ StorePosition(t)
        \/ NewSizeOfSell(t)
        \/ SetSize(t)
        \/ LoadBalance(t)
        \/ StoreBalance(t)
        \/ LoadCount(t)
        \/ StoreCount(t)
        \/ AppendResult(t)

RaceSpec == RaceInit /\ [][RaceNext]_vars

\* ------------------------------------------------------------------------
\* Properties
\* ------------------------------------------------------------------------

\* The ledger fields a caller can observe are as they were at the call.
LedgerUnchanged ==
    /\ balance = pre.balance
    /\ positions = pre.positions
    /\ order_history = pre.order_history
    /\ trade_count = pre.trade_count

\* The last operation was place_order on the simulated backend.
SimPlaced == backend = "simulated" /\ call.op = "place_order"

\* The last operation returned the result of a place_order call.
PlaceOrderResult ==
    call.op = "place_order" \/ (call.op = "close_position" /\ invoked # <<>>)

\* The cost of buying order o: size x reference price x (1 + slippage).
BuyCost(o) ==
    FMul(o.size,
         FMul(IF o.price = None THEN F(50000, 0) ELSE o.price,
              FAdd(F(1, 0), slippage)))

\* The zero-valued Position of an asset.
ZeroPosition(a) ==
    [asset |-> a, size |-> Zero, entry_price |-> Zero, unrealized_pnl |-> Zero,
     liquidation_price |-> None, leverage |-> F(1, 0)]

\* C1: on the simulated backend a buy whose cost exceeds the cash balance is
\* rejected (success false, status "rejected", filled_size 0) and leaves
\* balance, positions, order_history and trade_count as they were.
C1_UnaffordableBuyRejected ==
    (SimPlaced /\ call.order.side = "buy"
        /\ FGreater(BuyCost(call.order), pre.balance))
    => /\ ret.success = FALSE
       /\ ret.status = "rejected"
       /\ ret.filled_size = Zero
       /\ LedgerUnchanged

\* A buy of a never-traded asset was rejected for its cost.
C1_Witness ==
    /\ SimPlaced /\ call.order.side = "buy"
    /\ FGreater(BuyCost(call.order), pre.balance)
    /\ ret.status = "rejected"
    /\ call.order.asset \notin DOMAIN positions

\* C2: on the simulated backend place_order with size <= 0 returns a
\* rejected result with an error message and changes nothing.
C2_NonPositiveSizeRejected ==
    (SimPlaced /\ FLeq(call.order.size, Zero))
    => /\ ret.success = FALSE
       /\ ret.status = "rejected"
       /\ ret.error # None
       /\ LedgerUnchanged

\* C3: on the simulated backend a limit order without a price returns a
\* rejected result and changes nothing.
C3_LimitWithoutPriceRejected ==
    (SimPlaced /\ call.order.order_type = "limit" /\ call.order.price = None)
    => /\ ret.success = FALSE
       /\ ret.status = "rejected"
       /\ LedgerUnchanged

\* C4: every result of place_order, on either backend, has error None when
\* success is true, success false when status is "rejected" or "error", and
\* status "filled" or "open" when success is true.
C4_ResultConsistent ==
    PlaceOrderResult
    => /\ ret.success => ret.error = None
       /\ ret.status \in {"rejected", "error"} => ~ret.success
       /\ ret.success => ret.status \in {"filled", "open"}

\* The live backend returned a resting order.
C4_Witness ==
    /\ backend = "live" /\ call.op = "place_order"
    /\ ret.success /\ ret.status = "open" /\ ret.error = None

\* The snapshot us is a dict whose assetPositions, if present, is a list of
\* entries {"position": {...}}.
WellFormed(us) ==
    /\ ~IsRaise(us)
    /\ IsDict(us)
    /\ LET ap == Get(us, "assetPositions", JList(<<>>))
       IN  /\ ap.t = "list"
           /\ \A i \in DOMAIN ap.v :
                /\ IsDict(ap.v[i])
                /\ "position" \in DOMAIN ap.v[i].v
                /\ IsDict(ap.v[i].v["position"])

\* No entry of the well-formed snapshot us is for asset a.
MissingFrom(a, us) ==
    /\ WellFormed(us)
    /\ \A i \in DOMAIN Get(us, "assetPositions", JList(<<>>)).v :
          Get(Get(us, "assetPositions", JList(<<>>)).v[i].v["position"],
              "coin", JNone) # JStr(a)

\* C5: get_position returns the zero-valued Position for an asset never
\* successfully traded (simulated backend) and for an asset missing from the
\* user-state snapshot (live backend).
C5_ZeroPositionWhenAbsent ==
    /\ (backend = "simulated" /\ call.op = "get_position"
            /\ fills[call.asset] = <<>>)
       => ret = ZeroPosition(call.asset)
    /\ (backend = "live" /\ call.op = "get_position"
            /\ MissingFrom(call.asset, venue[1].reply))
       => ret = ZeroPosition(call.asset)

\* The position of a never-traded asset was read after a trade on another.
C5_Witness ==
    /\ backend = "simulated" /\ call.op = "get_position"
    /\ fills[call.asset] = <<>>
    /\ \E a \in Assets : fills[a] # <<>>
    /\ ret = ZeroPosition(call.asset)

\* The position close_position read when it was invoked, or the exception.
PositionRead ==
    IF backend = "simulated" THEN SimGetPosition(pre, call.asset)
    ELSE LiveGetPosition(call.asset, venue[1].reply)

\* close_position was invoked on a position of size 0.
ClosedFlat ==
    /\ call.op = "close_position"
    /\ ~IsRaise(PositionRead)
    /\ PositionRead.size = Zero

\* close_position was invoked on a position of non-zero size.
ClosedOpen ==
    /\ call.op = "close_position"
    /\ ~IsRaise(PositionRead)
    /\ PositionRead.size # Zero

\* C6: close_position on a position of size 0 fails with "No position to
\* close", invokes no place_order, sends no order to the venue and, on the
\* simulated backend, changes nothing.
C6_CloseFlatFails ==
    ClosedFlat
    => /\ ret = [success |-> FALSE, error |-> <<"No position to close">>]
       /\ invoked = <<>>
       /\ \A i \in DOMAIN venue : venue[i].request.fn = "user_state"
       /\ backend = "simulated" => (LedgerUnchanged /\ uuids = pre.uuids)

\* close_position on a simulated position traded back to flat.
C6_Witness ==
    /\ backend = "simulated" /\ ClosedFlat
    /\ fills[call.asset] # <<>>
    /\ ret.success = FALSE

\* The result of place_order for order o as close_position invoked it.
ResultOf(o) ==
    IF backend = "simulated" THEN SimPlaceOrder(pre, slippage, o).result
    ELSE LivePlaceOrder(o, venue[2].reply).result

\* C7: close_position on a position of size s # 0 invokes place_order exactly
\* once, as a market order with reduce_only for |s|, selling when s > 0 and
\* buying when s < 0, and returns the result of that call.
C7_CloseIssuesOffsettingOrder ==
    ClosedOpen
    => /\ Len(invoked) = 1
       /\ invoked[1].asset = call.asset
       /\ invoked[1].order_type = "market"
       /\ invoked[1].reduce_only = TRUE
       /\ invoked[1].size = FAbs(PositionRead.size)
       /\ FGreater(PositionRead.size, Zero) => invoked[1].side = "sell"
       /\ FLess(PositionRead.size, Zero) => invoked[1].side = "buy"
       /\ ret = ResultOf(invoked[1])

\* close_position on a simulated short position bought it back.
C7_Witness ==
    /\ backend = "simulated" /\ ClosedOpen
    /\ FLess(PositionRead.size, Zero)
    /\ invoked[1].side = "buy"
    /\ ret.success

\* Exact (unrounded) product, sum, difference and order of two numbers.
XMul(x, y) == Norm(x[1] * y[1], x[2] + y[2])

XAdd(x, y) ==
    IF IsZero(x) THEN Norm(y[1], y[2])
    ELSE IF IsZero(y) THEN Norm(x[1], x[2])
    ELSE Norm(ExactSum(x, y), Min(x[2], y[2]))

XSub(x, y) == XAdd(x, FNeg(y))

XLeq(x, y) == XSub(x, y)[1] <= 0

RECURSIVE TotalSize(_, _)
\* The exact sum of the sizes of the fills f[k], ..., f[Len(f)].
TotalSize(f, k) ==
    IF k > Len(f) THEN Zero ELSE XAdd(f[k].size, TotalSize(f, k + 1))

RECURSIVE TotalNotional(_, _)
\* The exact sum of size x price of the fills f[k], ..., f[Len(f)].
TotalNotional(f, k) ==
    IF k > Len(f) THEN Zero
    ELSE XAdd(XMul(f[k].size, f[k].price), TotalNotional(f, k + 1))

\* The trades of asset a from the k-th on are buys of a positive size that
\* started on a flat position.
BuyRun(a, k) ==
    /\ backend = "simulated"
    /\ k \in DOMAIN fills[a]
    /\ fills[a][k].size_before = Zero
    /\ \A i \in k..Len(fills[a]) :
          fills[a][i].side = "buy" /\ FGreater(fills[a][i].size, Zero)

\* C8 as stated: after buys on a flat position the entry price is exactly
\* sum(size_i x price_i) / sum(size_i) and the size is sum(size_i).
C8_ExactWeightedMean ==
    \A a \in Assets : \A k \in DOMAIN fills[a] :
        BuyRun(a, k)
        => /\ positions[a].size = TotalSize(fills[a], k)
           /\ XMul(positions[a].entry_price, TotalSize(fills[a], k))
                = TotalNotional(fills[a], k)

\* x and y differ by at most c * 2^-MantBits * y (y > 0): they agree up to c
\* roundings of float arithmetic.
Within(c, x, y) ==
    XLeq(XMul(FAbs(XSub(x, y)), <<1, MantBits>>), XMul(<<c, 0>>, y))

\* C8 amended: after n buys on a flat position the size is sum(size_i) up
\* to float rounding, a relative difference of at most n 2^-MantBits, and
\* the entry price is sum(size_i x price_i) / sum(size_i) up to float
\* rounding, a relative difference of at most 2 n^2 2^-MantBits.
C8_WeightedMeanUpToRounding ==
    \A a \in Assets : \A k \in DOMAIN fills[a] :
        BuyRun(a, k)
        => LET n == Len(fills[a]) - k + 1
           IN  /\ Within(n, positions[a].size, TotalSize(fills[a], k))
               /\ Within(2 * n * n,
                         XMul(positions[a].entry_price,
                              TotalSize(fills[a], k)),
                         TotalNotional(fills[a], k))

\* Two buys of different sizes at different prices on a flat position.
C8_Witness ==
    \E a \in Assets :
        /\ BuyRun(a, 1)
        /\ Len(fills[a]) = 2
        /\ fills[a][1].size # fills[a][2].size
        /\ fills[a][1].price # fills[a][2].price

\* The last operation was an accepted trade of a positive size on the
\* simulated backend; Traded is its order.
Traded == invoked[Len(invoked)]

AcceptedTrade ==
    /\ backend = "simulated"
    /\ PlaceOrderResult
    /\ ret.success
    /\ FGreater(Traded.size, Zero)

\* C9: an accepted trade changes the entry price only when it adds to the
\* position (a buy on a long or flat position, a sell on a short or flat
\* one); a buy on a short and a sell on a long leave it unchanged.
C9_EntryChangesOnlyWhenAdding ==
    AcceptedTrade
    => LET cur == CurrentPosition(pre.positions, Traded.asset)
           new == positions[Traded.asset]
           adds == \/ Traded.side = "buy" /\ FLeq(Zero, cur.size)
                   \/ Traded.side = "sell" /\ FLeq(cur.size, Zero)
       IN  /\ new.entry_price # cur.entry_price => adds
           /\ ~adds => new.entry_price = cur.entry_price

\* With no slippage, the last two trades were a buy of S at P on the flat
\* position of asset a and then a sell of S at P.
RoundTrip(a) ==
    /\ backend = "simulated"
    /\ slippage = Zero
    /\ Len(fills[a]) >= 2
    /\ LET bought == fills[a][Len(fills[a]) - 1]
           sold   == fills[a][Len(fills[a])]
       IN  /\ bought.side = "buy" /\ sold.side = "sell"
           /\ FGreater(bought.size, Zero) /\ FGreater(bought.price, Zero)
           /\ bought.size_before = Zero
           /\ sold.size = bought.size /\ sold.price = bought.price
           /\ sold.seq = bought.seq + 1 /\ sold.seq = trade_count

\* The balance before the buy of the round trip on asset a.
BalanceBefore(a) == fills[a][Len(fills[a]) - 1].balance_before

\* C10 as stated: the round trip returns the balance exactly to its value
\* before the buy and the position to size 0.
C10_RoundTripExact ==
    \A a \in Assets :
        RoundTrip(a)
        => balance = BalanceBefore(a) /\ positions[a].size = Zero

\* C10 amended: the round trip returns the position to size 0 and the
\* balance to its value before the buy up to float rounding, a relative
\* difference of at most 4 x 2^-MantBits.
C10_RoundTripUpToRounding ==
    \A a \in Assets :
        RoundTrip(a)
        => /\ Within(4, balance, BalanceBefore(a))
           /\ positions[a].size = Zero

\* A round trip was made.
C10_Witness ==
    \E a \in Assets : RoundTrip(a) /\ positions[a].size = Zero

\* The first trade of the backend built with balance 10000 and slippage
\* 0.001 was a buy of 0.1 BTC at reference price 50000.
ScenarioBuy ==
    /\ backend = "simulated"
    /\ initial_balance = Dec(10000, 1) /\ slippage = Dec(1, 1000)
    /\ fills["BTC"] # <<>>
    /\ LET bought == fills["BTC"][1]
       IN  /\ bought.seq = 1 /\ bought.side = "buy"
           /\ bought.size = Dec(1, 10) /\ bought.ref = Dec(50000, 1)

\* Only that buy has traded so far.
ScenarioBought == ScenarioBuy /\ trade_count = 1

\* The buy was followed by a sell of 0.1 BTC at reference price 50000, and
\* nothing has traded since.
ScenarioSold ==
    /\ ScenarioBuy /\ trade_count = 2 /\ Len(fills["BTC"]) = 2
    /\ LET sold == fills["BTC"][2]
       IN  /\ sold.side = "sell" /\ sold.size = Dec(1, 10)
           /\ sold.ref = Dec(50000, 1)

RECURSIVE PnlOver(_)
\* get_position(asset).unrealized_pnl summed over the assets of S.
PnlOver(S) ==
    IF S = {} THEN Zero
    ELSE LET a == CHOOSE x \in S : TRUE
         IN  FAdd(SimGetPosition(Ledger, a).unrealized_pnl, PnlOver(S \ {a}))

\* get_account_value returned an account to the caller.
AccountRead == call.op = "get_account_value" /\ ~IsRaise(ret)

\* The simulated half of the Account invariant.
SimAccountInvariant ==
    (backend = "simulated" /\ AccountRead)
    => /\ ret.total_unrealized_pnl = PnlOver(DOMAIN positions)
       /\ ret.account_value = FAdd(balance, ret.total_unrealized_pnl)
       /\ ret.margin_used = Zero

\* C12 as stated: the simulated account has account_value = balance +
\* total_unrealized_pnl, the sum of the positions' unrealized_pnl, and
\* margin_used 0; the live account has account_value = available_margin +
\* margin_used (+ being the float sum).
C12_AccountInvariant ==
    /\ SimAccountInvariant
    /\ (backend = "live" /\ AccountRead)
       => ret.account_value = FAdd(ret.available_margin, ret.margin_used)

\* C12 amended: on the live backend available_margin is the float
\* account_value - margin_used, so that available_margin + margin_used is
\* account_value up to the rounding of that subtraction: they differ by at
\* most 2^-MantBits x |available_margin|.
C12_AccountInvariantUpToRounding ==
    /\ SimAccountInvariant
    /\ (backend = "live" /\ AccountRead)
       => /\ ret.available_margin = FSub(ret.account_value, ret.margin_used)
          /\ XLeq(XMul(FAbs(XSub(XAdd(ret.available_margin, ret.margin_used),
                                  ret.account_value)),
                        <<1, MantBits>>),
                  FAbs(ret.available_margin))

\* The account was read with positions open on two assets.
C12_Witness ==
    /\ backend = "simulated" /\ AccountRead
    /\ \A a \in Assets :
          a \in DOMAIN positions
          /\ SimGetPosition(Ledger, a).unrealized_pnl # Zero
    /\ ret.account_value # balance

\* get_order_status was asked about an id the simulated backend never drew.
UnknownSimId ==
    /\ backend = "simulated" /\ call.op = "get_order_status"
    /\ call.order_id \notin 1..uuids

\* The identifiers the venue gives out or holds in its open orders.
VenueOids == {F(77, 0), F(78, 0), F(79, 0), F(80, 0)}

\* get_order_status was asked about an id the venue never gave out.
UnknownLiveId ==
    /\ backend = "live" /\ call.op = "get_order_status"
    /\ \A oid \in VenueOids : Str(call.order_id) # JNumStr(oid)

\* The status answered is neutral: no fill, nothing remaining.
Neutral(status) ==
    /\ ~IsRaise(ret)
    /\ ret.status = status
    /\ ret.filled_size = Zero /\ ret.remaining_size = Zero

\* C13 as stated: for an id never issued get_order_status answers
\* "not_found" (simulated) or "filled_or_canceled" (live) with filled_size 0
\* and remaining_size 0, whatever the state of the backend and of the venue.
C13_UnknownOrderNeutral ==
    /\ UnknownSimId => Neutral("not_found")
    /\ UnknownLiveId => Neutral("filled_or_canceled")

\* The snapshot us is a dict whose openOrders, if present, is a list of
\* dicts.
ReadableOrders(us) ==
    /\ ~IsRaise(us)
    /\ IsDict(us)
    /\ LET oo == Get(us, "openOrders", JList(<<>>))
       IN  oo.t = "list" /\ \A i \in DOMAIN oo.v : IsDict(oo.v[i])

\* C13 amended: as stated on the simulated backend; on the live backend the
\* answer is "filled_or_canceled" when the venue answers a readable snapshot
\* and "error" when the venue call raises, and in every case
\* "filled_or_canceled" or "error" with filled_size 0 and remaining_size 0,
\* returned and not raised.
C13_UnknownOrderNeutralOrError ==
    /\ UnknownSimId => Neutral("not_found")
    /\ UnknownLiveId
       => /\ Neutral("filled_or_canceled") \/ Neutral("error")
          /\ ReadableOrders(venue[1].reply) => Neutral("filled_or_canceled")
          /\ IsRaise(venue[1].reply) => Neutral("error")

\* An id the venue never gave out was asked about while other orders rest.
C13_Witness ==
    /\ UnknownLiveId
    /\ ReadableOrders(venue[1].reply)
    /\ Get(venue[1].reply, "openOrders", JList(<<>>)).v # <<>>
    /\ Neutral("filled_or_canceled")

\* The sequence p is an initial part of the sequence q.
IsPrefix(p, q) ==
    Len(p) <= Len(q) /\ \A i \in DOMAIN p : p[i] = q[i]

\* get_order_status was asked, on the simulated backend, about the order id
\* of the i-th accepted trade of asset a.
AskedAbout(a, i) ==
    /\ backend = "simulated" /\ call.op = "get_order_status"
    /\ i \in DOMAIN fills[a]
    /\ fills[a][i].order_id = call.order_id

\* C14: on the simulated backend a place_order that returns success appends
\* exactly its result to order_history, every operation leaves the records
\* already in order_history as and where they are, and get_order_status
\* with the order id of an accepted order (limit orders included) answers
\* "filled" with that order's filled_size and average_price and
\* remaining_size 0.
C14_HistoryAppendOnly ==
    backend = "simulated"
    => /\ IsPrefix(pre.order_history, order_history)
       /\ (PlaceOrderResult /\ ret.success)
          => order_history = Append(pre.order_history, ret)
       /\ (PlaceOrderResult /\ ~ret.success)
          => order_history = pre.order_history
       /\ \A a \in Assets : \A i \in DOMAIN fills[a] :
             AskedAbout(a, i)
             => /\ ret.status = "filled"
                /\ ret.filled_size = fills[a][i].size
                /\ ret.average_price = fills[a][i].price
                /\ ret.remaining_size = Zero

\* The order filled before the last one was submitted as a limit order (it
\* drew two ids: its id is 2 and it is the first fill) and was asked about.
C14_Witness ==
    /\ \E a \in Assets : AskedAbout(a, 1) /\ fills[a][1].order_id = 2
    /\ Len(order_history) = 1
    /\ ret.status = "filled"

\* The fields of an ExecutionResult (the timestamp is not modelled).
ResultFields ==
    {"success", "order_id", "filled_size", "average_price", "status", "error"}

\* The live place_order sent an order and the venue answered reply.
LivePlaced(reply) ==
    /\ backend = "live" /\ call.op = "place_order"
    /\ venue # <<>> /\ venue[1].reply = reply

\* The reply is {"status": "ok", "response": {"data": {"statuses": [st,
\* ...]}}} with st a dict.
HasFirstStatus(reply) ==
    /\ ~IsRaise(reply) /\ IsDict(reply)
    /\ Get(reply, "status", JNone) = JStr("ok")
    /\ IsDict(Get(reply, "response", JNone))
    /\ IsDict(Get(reply.v["response"], "data", JNone))
    /\ Get(reply.v["response"].v["data"], "statuses", JNone).t = "list"
    /\ reply.v["response"].v["data"].v["statuses"].v # <<>>
    /\ IsDict(reply.v["response"].v["data"].v["statuses"].v[1])

\* That first order status st.
FirstStatusOf(reply) == reply.v["response"].v["data"].v["statuses"].v[1]

\* The reply cannot be parsed: it is not a dict, or its first order status
\* is a fill that is not a dict or whose totalSz or avgPx is not a number.
Unparseable(reply) ==
    /\ ~IsRaise(reply)
    /\ \/ ~IsDict(reply)
       \/ /\ HasFirstStatus(reply)
          /\ "resting" \notin DOMAIN FirstStatusOf(reply).v
          /\ "filled" \in DOMAIN FirstStatusOf(reply).v
          /\ LET filled == FirstStatusOf(reply).v["filled"]
             IN  \/ ~IsDict(filled)
                 \/ ~CanFloat(Get(filled, "totalSz", JNum(Zero)))
                 \/ ~CanFloat(Get(filled, "avgPx", JNum(Zero)))

\* C15: the live place_order always returns an ExecutionResult, never an
\* exception; when the venue call raises or its reply cannot be parsed the
\* result has success false, status "error", filled_size 0 and the
\* exception text as error.
C15_PlaceOrderAlwaysReturns ==
    (backend = "live" /\ call.op = "place_order")
    => /\ ~IsRaise(ret)
       /\ DOMAIN ret = ResultFields
       /\ \A reply \in VenueReplies :
             (LivePlaced(reply) /\ (IsRaise(reply) \/ Unparseable(reply)))
             => /\ ret.success = FALSE
                /\ ret.status = "error"
                /\ ret.filled_size = Zero
                /\ ret.error # None
                /\ IsRaise(reply) => ret.error = <<reply.raised>>

\* The venue call raised and place_order returned an error result.
C15_Witness ==
    /\ \E reply \in VenueReplies : LivePlaced(reply) /\ IsRaise(reply)
    /\ ~IsRaise(ret)
    /\ ret.status = "error"

\* The first order status of the "ok" reply is a resting order.
Resting(reply) ==
    HasFirstStatus(reply) /\ "resting" \in DOMAIN FirstStatusOf(reply).v

\* The first order status of the "ok" reply is an immediate fill.
ImmediateFill(reply) ==
    /\ HasFirstStatus(reply)
    /\ "resting" \notin DOMAIN FirstStatusOf(reply).v
    /\ "filled" \in DOMAIN FirstStatusOf(reply).v

\* The error text the venue put in its reply: the error of the first order
\* status, or of the response, or the response itself when it is a text.
VenueErrorText(reply) ==
    IF HasFirstStatus(reply) /\ "error" \in DOMAIN FirstStatusOf(reply).v
    THEN FirstStatusOf(reply).v["error"]
    ELSE IF IsDict(reply) /\ IsDict(Get(reply, "response", JNone))
    THEN Get(reply.v["response"], "error", JStr("Unknown error"))
    ELSE IF IsDict(reply) THEN Get(reply, "response", JStr("Unknown error"))
    ELSE JStr("Unknown error")

\* C16: when the live place_order does not raise, its result is "open"
\* (success, filled_size 0, order_id the resting oid) exactly when the reply
\* is "ok" with a resting first order status, "filled" (success, filled_size
\* and average_price of the nested "filled") exactly when the first order
\* status is an immediate fill, and otherwise a failure with status
\* "rejected" and the venue's error text.
C16_ReplyParsing ==
    \A reply \in VenueReplies :
        (LivePlaced(reply) /\ ~IsRaise(reply) /\ ret.status # "error")
        => /\ ret.status = "open" <=> Resting(reply)
           /\ Resting(reply)
              => /\ ret.success /\ ret.filled_size = Zero
                 /\ ret.order_id
                      = Value(Get(FirstStatusOf(reply).v["resting"], "oid",
                                  JNone))
           /\ ret.status = "filled" <=> ImmediateFill(reply)
           /\ ImmediateFill(reply)
              => /\ ret.success
                 /\ LET filled == FirstStatusOf(reply).v["filled"]
                    IN  /\ "totalSz" \in DOMAIN filled.v
                           => ret.filled_size = filled.v["totalSz"].v
                        /\ "avgPx" \in DOMAIN filled.v
                           => ret.average_price = filled.v["avgPx"].v
           /\ (~Resting(reply) /\ ~ImmediateFill(reply))
              => /\ ret.success = FALSE
                 /\ ret.status = "rejected"
                 /\ ret.error = VenueErrorText(reply)

\* The steady-state operations of the contract.
SteadyState ==
    {"place_order", "get_position", "get_account_value", "cancel_order",
     "get_order_status"}

\* C17: no steady-state operation of a constructed live backend raises; a
\* failure of the venue during get_position or get_account_value is
\* reported in the value returned.
C17_LiveNeverRaises ==
    (backend = "live" /\ call.op \in SteadyState) => ~IsRaise(ret)

\* The live backend was constructed where no signing key is available and
\* the venue SDK is.
KeyMissing ==
    /\ call.op = "__init__" /\ call.class = "HyperliquidExecutor"
    /\ call.env.sdk
    /\ call.env.HYPERLIQUID_SECRET_KEY \in {JNone, JStr("")}

\* C18: constructing the live backend without a signing key raises the
\* configuration error (ValueError) in the constructor, with no venue client
\* created and no venue call made, and leaves no backend to operate on; a
\* live backend that exists has a signing key, so that no operation meets
\* the missing key later.
C18_MissingKeyFailsConstruction ==
    /\ KeyMissing
       => /\ ret = Raise("ValueError")
          /\ clients = <<>>
          /\ venue = <<>>
          /\ backend = "none"
    /\ backend = "none" => call.op = "__init__"
    /\ backend = "live"
       => secret_key \notin {JNone, JStr("")} /\ clients # <<>>

\* A construction without the key failed, the SDK being installed.
C18_Witness == KeyMissing /\ IsRaise(ret) /\ backend = "none"

\* Both concurrent callers have returned.
BothReturned == threads # <<>> /\ \A t \in Callers : threads[t].pc = "done"

\* What the claim compares of a ledger.
Outcome(L) ==
    [balance |-> L.balance, positions |-> L.positions,
     trade_count |-> L.trade_count, history |-> Len(L.order_history)]

\* The ledger after caller i's order and then caller j's, one after the
\* other, on the ledger the two callers found.
OneAfterTheOther(i, j) ==
    SimPlaceOrder(SimPlaceOrder(pre, slippage, threads[i].o).ledger,
                  slippage, threads[j].o).ledger

\* C19: two concurrent place_order calls on one simulated backend for one
\* asset end in the balance, position, trade_count and history length of
\* the two calls made one after the other in some order.
C19_ConcurrentOrdersSerializable ==
    BothReturned
    => \/ Outcome(Ledger) = Outcome(OneAfterTheOther(1, 2))
       \/ Outcome(Ledger) = Outcome(OneAfterTheOther(2, 1))

\* The simulated backend holds an entry for exactly the assets with an
\* accepted trade, and no operation removes one.
EntriesFollowTrades ==
    backend = "simulated" /\ threads = <<>>
    => /\ \A a \in Assets : a \in DOMAIN positions <=> fills[a] # <<>>
       /\ DOMAIN pre.positions \subseteq DOMAIN positions

\* get_position has just answered for an asset whose entry has size 0.
AskedFlat ==
    /\ backend = "simulated"
    /\ call.op = "get_position"
    /\ call.asset \in DOMAIN positions
    /\ positions[call.asset].size = Zero

\* The asset asked about has been bought and sold in positive sizes.
TradedBack ==
    /\ \E i \in DOMAIN fills[call.asset] :
        fills[call.asset][i].side = "buy" /\ fills[call.asset][i].size # Zero
    /\ \E i \in DOMAIN fills[call.asset] :
        fills[call.asset][i].side = "sell" /\ fills[call.asset][i].size # Zero

\* The answer is size 0 and no unrealized PnL, the ledger is as before, and
\* asking again gives the same answer.
FlatAnswer ==
    /\ ret.size = Zero
    /\ ret.unrealized_pnl = Zero
    /\ LedgerUnchanged
    /\ ret = SimGetPosition(Ledger, call.asset)

\* C20 as stated: an entry is created only by the first accepted trade on
\* an asset and never removed; for an entry traded back to size 0
\* get_position returns size 0, entry_price 0 and unrealized_pnl 0, and
\* returns the same when called again.
C20_FlatRecordIsZero ==
    /\ EntriesFollowTrades
    /\ AskedFlat /\ TradedBack => FlatAnswer /\ ret.entry_price = Zero

\* C20 amended: an entry is created only by the first accepted trade on an
\* asset and never removed; for an entry traded back to size 0 get_position
\* returns size 0, unrealized_pnl 0 and the entry price the record still
\* holds from the last buy, and returns the same when called again.
C20_FlatRecordKeepsEntry ==
    /\ EntriesFollowTrades
    /\ AskedFlat
       => FlatAnswer /\ ret.entry_price = positions[call.asset].entry_price

C20_Witness ==
    /\ AskedFlat
    /\ TradedBack
    /\ ret.entry_price # Zero

\* The position of the asset just traded, before and after the order.
SizeBefore == CurrentPosition(pre.positions, call.order.asset).size

SizeAfter == CurrentPosition(positions, call.order.asset).size

\* C21: on the simulated backend an order placed with reduce_only=true only
\* decreases the magnitude of a position: |size| does not grow, the sign
\* never flips, and on a flat or never-traded asset no position is opened.
C21_ReduceOnlyOnlyReduces ==
    SimPlaced /\ call.order.reduce_only
    => /\ FLeq(FAbs(SizeAfter), FAbs(SizeBefore))
       /\ Sign(SizeAfter[1]) * Sign(SizeBefore[1]) >= 0
       /\ SizeBefore = Zero => SizeAfter = Zero

\* A result without its order id.
Anonymous(result) == [f \in DOMAIN result \ {"order_id"} |-> result[f]]

\* Outcomes x and y of place_order agree in the result, but for the order
\* id, and in their effect on the ledger.
SameOutcome(x, y) ==
    /\ Anonymous(x.result) = Anonymous(y.result)
    /\ x.ledger.balance = y.ledger.balance
    /\ x.ledger.positions = y.ledger.positions
    /\ x.ledger.trade_count = y.ledger.trade_count
    /\ Len(x.ledger.order_history) = Len(y.ledger.order_history)
    /\ \A i \in DOMAIN x.ledger.order_history :
          Anonymous(x.ledger.order_history[i])
              = Anonymous(y.ledger.order_history[i])

\* Order o as a market order.
AsMarket(o) == [o EXCEPT !.order_type = "market"]

\* C22: on the simulated backend a limit order has, in every state, the
\* effect and the result (but for the order id) of the market order with
\* the same arguments: it is never left open, slippage is applied to the
\* requested price, the nested call is made once and at most one fill is
\* recorded.  The two are compared on every ledger, that is in the state
\* after construction and after every operation that may write the ledger,
\* and on the limit order placed last.
C22_LimitExecutesAsMarket ==
    backend = "simulated"
    => /\ call.op \in {"__init__", "place_order", "close_position"}
          => \A o \in LimitOrders :
            LET lim == SimPlaceOrder(Ledger, slippage, o)
            IN  /\ SameOutcome(lim, SimPlaceOrder(Ledger, slippage, AsMarket(o)))
                /\ lim.result.status \in {"filled", "rejected"}
                /\ lim.invoked = <<o, AsMarket(o)>>
                /\ lim.result.success
                   => /\ lim.result.average_price
                            = ExecutionPrice(o.side, o.price, slippage)
                      /\ Len(lim.ledger.order_history)
                            = Len(order_history) + 1
       /\ SimPlaced /\ call.order.order_type = "limit"
          => /\ invoked = <<call.order, AsMarket(call.order)>>
             /\ Anonymous(ret)
                   = Anonymous(SimPlaceOrder(pre, slippage,
                                             AsMarket(call.order)).result)
             /\ Len(order_history)
                   = Len(pre.order_history) + IF ret.success THEN 1 ELSE 0

C22_Witness ==
    /\ SimPlaced
    /\ call.order.order_type = "limit"
    /\ call.order.price # None
    /\ slippage # Zero
    /\ ret.status = "filled"
    /\ ret.average_price # call.order.price
    /\ Len(fills[call.order.asset]) = Len(order_history)

\* The live backend was asked to place a limit order without a price.
LiveUnpricedLimit ==
    /\ backend = "live"
    /\ call.op = "place_order"
    /\ call.order.order_type = "limit"
    /\ call.order.price = None

\* C23: on the live backend a limit order without a price is rejected
\* (success false, status "rejected", no order id, error "Limit price
\* required for limit orders") and nothing is submitted to the venue.
C23_LiveLimitNeedsPrice ==
    LiveUnpricedLimit
    => /\ ret.success = FALSE
       /\ ret.status = "rejected"
       /\ ret.order_id = None
       /\ ret.error = <<"Limit price required for limit orders">>
       /\ venue = <<>>

C23_Witness == LiveUnpricedLimit /\ ret.status = "rejected"

\* The order of the last place_order invocation.
LastOrder == invoked[Len(invoked)]

\* The simulated backend has just answered a sell of positive size.
SoldPositive ==
    /\ backend = "simulated"
    /\ PlaceOrderResult
    /\ LastOrder.side = "sell"
    /\ FGreater(LastOrder.size, Zero)

\* C24: on the simulated backend every sell of size s > 0 is accepted
\* whatever the position and the balance, and the ledger becomes: size' =
\* size - s, balance' = balance + s x execution_price, the entry price of
\* the asset as before, the positions of the other assets as before (each
\* operation being the float operation of the code).
C24_SellAlwaysAccepted ==
    SoldPositive
    => LET a   == LastOrder.asset
           was == CurrentPosition(pre.positions, a)
       IN  /\ ret.success /\ ret.status = "filled"
           /\ ret.average_price
                 = ExecutionPrice("sell", LastOrder.price, slippage)
           /\ DOMAIN positions = DOMAIN pre.positions \cup {a}
           /\ positions[a].size = FSub(was.size, LastOrder.size)
           /\ positions[a].entry_price = was.entry_price
           /\ balance
                 = FAdd(pre.balance, FMul(LastOrder.size, ret.average_price))
           /\ \A b \in DOMAIN pre.positions \ {a} :
                 positions[b] = pre.positions[b]

C24_Witness ==
    /\ SoldPositive
    /\ FLess(positions[LastOrder.asset].size, Zero)
    /\ positions[LastOrder.asset].entry_price # Zero
    /\ FGreater(balance, initial_balance)

\* cancel_order has just answered on the simulated backend.
SimCancelled == backend = "simulated" /\ call.op = "cancel_order"

\* C25: on the simulated backend cancel_order answers success false, the
\* order id it was given and a "not supported" error, for every order id and
\* in every state, and changes nothing: the ledger is as before and
\* get_order_status answers for the order as it did before.
C25_CancelNotSupported ==
    SimCancelled
    => /\ ret = [success |-> FALSE, order_id |-> call.order_id,
                 error |-> <<"Order cancellation not supported in simulation">>]
       /\ LedgerUnchanged
       /\ SimGetOrderStatus(Ledger, call.order_id)
             = SimGetOrderStatus(pre, call.order_id)

C25_Witness ==
    /\ SimCancelled
    /\ SimGetOrderStatus(Ledger, call.order_id).status = "filled"

\* Every trade accepted so far had a positive size and a positive price.
PositiveTrades ==
    \A a \in Assets : \A i \in DOMAIN fills[a] :
        FGreater(fills[a][i].size, Zero) /\ FGreater(fills[a][i].ref, Zero)

\* The constructor arguments the claim allows.
SoundConfig ==
    /\ FLeq(Zero, initial_balance)
    /\ FLeq(Zero, slippage) /\ FLess(slippage, F(1, 0))

\* C26: on the simulated backend constructed with initial_balance >= 0 and
\* 0 <= slippage < 1, after place_order calls with size > 0 and price > 0
\* the cash balance is never negative.
C26_BalanceNeverNegative ==
    backend = "simulated" /\ SoundConfig /\ PositiveTrades
    => FLeq(Zero, balance)

C26_Witness ==
    /\ SimPlaced /\ SoundConfig /\ PositiveTrades
    /\ ret.status = "rejected"
    /\ FLess(balance, initial_balance)
    /\ FLess(balance, BuyCost(call.order))

\* The place_order calls of callers answered with success so far.
Accepted == UNION {{<<a, i>> : i \in DOMAIN fills[a]} : a \in Assets}

\* place_order has just rejected an order on the simulated backend.
SimRejected ==
    /\ backend = "simulated"
    /\ PlaceOrderResult
    /\ ret.status = "rejected"

\* C27: on the simulated backend trade_count is the length of
\* order_history and the number of place_order calls answered with success;
\* a rejected order is not recorded, and get_order_status answers
\* "not_found" for the order id its result carries.
C27_CountsAgree ==
    backend = "simulated"
    => /\ trade_count = Len(order_history)
       /\ trade_count = Cardinality(Accepted)
       /\ SimRejected
          => /\ ret.success = FALSE
             /\ LedgerUnchanged
             /\ SimGetOrderStatus(Ledger, ret.order_id).status = "not_found"

C27_Witness ==
    /\ SimRejected
    /\ trade_count = 1
    /\ ret.order_id = 2

\* A query has just answered on the simulated backend.
Queried ==
    /\ backend = "simulated"
    /\ call.op \in {"get_position", "get_account_value", "get_order_status",
                    "get_statistics"}

\* What the query just answered answers when it is asked again now.
AskedAgain ==
    CASE call.op = "get_position" -> SimGetPosition(Ledger, call.asset)
      [] call.op = "get_account_value" -> SimGetAccountValue(Ledger)
      [] call.op = "get_order_status" ->
            SimGetOrderStatus(Ledger, call.order_id)
      [] call.op = "get_statistics" ->
            SimGetStatistics(Ledger, initial_balance)

\* C28: on the simulated backend get_position, get_account_value,
\* get_order_status and get_statistics leave balance, positions,
\* order_history and trade_count as they were (get_position creates no
\* entry), and the same query asked again answers the same.
C28_QueriesChangeNothing ==
    Queried
    => /\ LedgerUnchanged
       /\ uuids = pre.uuids
       /\ DOMAIN positions = DOMAIN pre.positions
       /\ ret = AskedAgain

C28_Witness ==
    /\ Queried
    /\ call.op = "get_position"
    /\ call.asset \notin DOMAIN positions
    /\ trade_count > 0

\* close_position has just answered on the simulated backend.
SimClosed == backend = "simulated" /\ call.op = "close_position"

\* C29: on the simulated backend, when close_position answers success the
\* size of the asset's position is exactly 0, for a long and for a short;
\* when it answers failure (a flat position, or a short whose buy-back at
\* the default reference price costs more than the balance) the balance and
\* the positions are as before.
C29_CloseLeavesFlatOrNothing ==
    SimClosed
    => /\ ret.success
          => /\ call.asset \in DOMAIN positions
             /\ positions[call.asset].size = Zero
             /\ CurrentPosition(pre.positions, call.asset).size # Zero
       /\ ~ret.success
          => /\ LedgerUnchanged
             /\ \/ CurrentPosition(pre.positions, call.asset).size = Zero
                \/ /\ FLess(CurrentPosition(pre.positions, call.asset).size,
                            Zero)
                   /\ ret.status = "rejected"

\* A short has been closed.
C29_Witness ==
    /\ SimClosed
    /\ ret.success
    /\ FLess(pre.positions[call.asset].size, Zero)
    /\ positions[call.asset].size = Zero

\* C30: on the simulated backend, after accepted buys and sells with size >
\* 0 and price > 0, the entry price of every asset with a non-zero size lies
\* between the lowest and the highest execution price of the fills recorded
\* for that asset.
C30_EntryWithinFillPrices ==
    backend = "simulated" /\ threads = <<>> /\ PositiveTrades
    => \A a \in DOMAIN positions :
          positions[a].size # Zero
          => /\ \E i \in DOMAIN fills[a] :
                   FLeq(fills[a][i].price, positions[a].entry_price)
             /\ \E i \in DOMAIN fills[a] :
                   FLeq(positions[a].entry_price, fills[a][i].price)

=============================================================================
